---- MODULE Spec2Model ----
(***************************************************************************)
(* The approval workflow of the ground-truth bot: the Slack event handlers *)
(* of bot.py (handle_message, _check_text_approval, handle_reaction,       *)
(* _handle_nudge_reaction, handle_app_mention), the Document Store of      *)
(* agent.py (ProjectAgent) and the Event Ledger of db.py.                  *)
(*                                                                         *)
(* Slack Bolt runs every listener on a worker thread, so several handlers  *)
(* are in flight at once.  A handler in flight is a record in the bag      *)
(* `handlers`; one step of the model is one access of one handler to the   *)
(* shared state (a dict operation, a file read or write, an SQL statement, *)
(* a Slack call).                                                          *)
(*                                                                         *)
(* Texts.  A Slack message id ("ts") is a positive number, unique within   *)
(* its channel.  The update text the oracle extracts from the message with *)
(* id ts is TextNames[ts]: distinct messages of a channel propose distinct *)
(* texts.  Timestamps written into entries (datetime.now()) are left out.  *)
(***************************************************************************)
EXTENDS Integers, Sequences, FiniteSets, Bags, TLC

\* ---------------------------------------------------------------- bounds
\* The largest message id the clock hands out.
MaxTs == 3
\* The number of handlers that may be in flight at once.
MaxThreads == 2

\* ------------------------------------------------------------ the inputs
Channels == {"C1", "C2"}
\* The users who write messages, and the users who decide on proposals.
Authors == {"U1"}
Deciders == {"U2"}
Users == Authors \cup Deciders

\* _resolve_channel_name: the name conversations_info gives for a channel id.
ChannelName(channel_id) ==
    CASE channel_id = "C1" -> "alpha"
      [] channel_id = "C2" -> "beta"

Projects == {ChannelName(c) : c \in Channels}

\* The non-bot members _fetch_channel_members finds in each channel.
ChannelMembers(channel_id) ==
    CASE channel_id = "C1" -> << [id |-> "U1", real_name |-> "Alex", title |-> "Eng"] >>
      [] channel_id = "C2" ->
           << [id |-> "U1", real_name |-> "Alex", title |-> "Eng"],
              [id |-> "U2", real_name |-> "Bo", title |-> ""] >>

\* The update text of the message with id ts.
TextNames == << "text1", "text2", "text3", "text4", "text5", "text6", "text7", "text8" >>

\* The role a user asks for with "@bot role ...".
Roles == {"Backend"}

\* The reactions and reply bodies users send: one of each recognized set, and
\* one unrecognized.
ReactionInputs == {"white_check_mark", "thumbsdown", "eyes"}
BodyInputs == {"Yes", "nope", "hello"}

APPROVE_REACTIONS == {"white_check_mark", "+1", "thumbsup"}
REJECT_REACTIONS == {"x", "-1", "thumbsdown"}
APPROVE_WORDS == {"y", "yes", "yeah", "sure", "approve", "approved", "ok"}
REJECT_WORDS == {"n", "no", "nah", "reject", "rejected", "nope"}

\* event.get("text", "").strip().lower() on the reply bodies above.
StripLower(text) ==
    CASE text = "Yes" -> "yes"
      [] text = "nope" -> "nope"
      [] text = "hello" -> "hello"
      [] OTHER -> text

NULL == "NULL"

\* ------------------------------------------------------- the oracle verdict
\* A verdict string is a sequence of tokens: words, that is, tokens \w+
\* matches, separators "|", ":" and " ", and tokens that hold other
\* characters, such as a mention or a hyphenated name.
IsWord(tok) == tok \notin {"|", ":", " ", "<@U2>", "tech-debt"}

\* str.strip() on a token sequence: the blanks at both ends go.
RECURSIVE LStripTokens(_)
LStripTokens(s) ==
    IF s # << >> /\ Head(s) = " " THEN LStripTokens(Tail(s)) ELSE s

RECURSIVE RStripTokens(_)
RStripTokens(s) ==
    IF s # << >> /\ s[Len(s)] = " " THEN RStripTokens(SubSeq(s, 1, Len(s) - 1)) ELSE s

StripTokens(s) == RStripTokens(LStripTokens(s))

\* The kinds of verdict.
Kinds == {"PASS", "ROUTE", "UPDATE", "MISALIGN", "QUESTION"}

\* The verdicts classify_message may return for the message with id ts.
Verdicts(ts) ==
    { << "PASS" >>,
      << "UPDATE", "|", "decision", ":", " ", TextNames[ts] >>,
      << "ROUTE", "|", "escalation", ":", " ", "<@U2>", " ", "|", " ", TextNames[ts] >>,
      << "MISALIGN", "|", "pivot", ":", " ", TextNames[ts] >>,
      << "QUESTION", ":", " ", TextNames[ts] >> }

\* _parse_category: re.match(r"^(\w+)\|(\w+):\s*(.*)") gives
\* ("ACTION: content", category); without a match (result, "general").
ParseCategory(result) ==
    IF /\ Len(result) >= 4
       /\ IsWord(result[1]) /\ result[2] = "|"
       /\ IsWord(result[3]) /\ result[4] = ":"
    THEN [ result |-> << result[1], ":", " " >>
                        \o LStripTokens(SubSeq(result, 5, Len(result))),
           category |-> result[3] ]
    ELSE [ result |-> result, category |-> "general" ]

\* result.startswith("KIND:")
StartsWith(result, kind) ==
    Len(result) >= 2 /\ result[1] = kind /\ result[2] = ":"

\* result.replace("KIND:", "").strip() for a result that starts with "KIND:".
ContentOf(result) == StripTokens(SubSeq(result, 3, Len(result)))

\* The tokens of s before its first "|": s.split("|", 1)[0].
RECURSIVE BeforeBar(_)
BeforeBar(s) ==
    IF s = << >> \/ Head(s) = "|" THEN << >> ELSE << Head(s) >> \o BeforeBar(Tail(s))

\* A ROUTE branch that takes the whole content for the target.
RouteTargetWhole(result) == ContentOf(result)

\* handle_message, ROUTE: target_user = route_data[0].strip(), where
\* route_data = result.replace("ROUTE:", "").strip().split("|", 1).
RouteTarget(result) == StripTokens(BeforeBar(ContentOf(result)))

\* _build_permalink(channel_id, ts)
BuildPermalink(channel_id, ts) == [channel |-> channel_id, p |-> ts]

\* ------------------------------------------------------------ the Document
\* A Document is a sequence of lines; every line is a record of one shape.
DocLine(kind, name, uid, role, text, by) ==
    [kind |-> kind, name |-> name, uid |-> uid, role |-> role, text |-> text, by |-> by]

Plain(kind) == DocLine(kind, "", "", "", << >>, "")
Blank == Plain("blank")
\* "(Bot will populate this as decisions are made)"
Placeholder == Plain("log_placeholder")
\* "* **name** (<@uid>) - role"
MemberLine(name, uid, role) == DocLine("member", name, uid, role, << >>, "")
\* "* **date:** text (approved by <@by>)"
EntryLine(text, by) == DocLine("entry", "", "", "", text, by)

NoFile == [exists |-> FALSE, lines |-> << >>]
FileOf(lines) == [exists |-> TRUE, lines |-> lines]

\* str.strip() and str.rstrip() on a text of lines: blank lines at the ends go.
RECURSIVE LStripLines(_)
LStripLines(s) ==
    IF s # << >> /\ Head(s) = Blank THEN LStripLines(Tail(s)) ELSE s

RECURSIVE RStripLines(_)
RStripLines(s) ==
    IF s # << >> /\ s[Len(s)] = Blank THEN RStripLines(SubSeq(s, 1, Len(s) - 1)) ELSE s

StripLines(s) == RStripLines(LStripLines(s))

\* ProjectAgent._load_file: the stripped text of the file, "" when it is missing.
LoadFile(f) == IF f.exists THEN StripLines(f.lines) ELSE << >>

\* A text without the marker for an empty member list.
InitialGroundTruthBare(members) ==
    << Plain("title"), Blank, Plain("h_objective"), Plain("objective_placeholder"), Blank,
       Plain("h_directory") >>
    \o [i \in 1..Len(members) |->
           MemberLine(members[i].real_name, members[i].id, members[i].title)]
    \o << Blank, Plain("h_log"), Placeholder >>

\* The ground truth text initialize() builds for a member list.
InitialGroundTruth(members) ==
    << Plain("title"), Blank, Plain("h_objective"), Plain("objective_placeholder"), Blank,
       Plain("h_directory") >>
    \o (IF members = << >>
        THEN << Plain("no_members") >>
        ELSE [i \in 1..Len(members) |->
                MemberLine(members[i].real_name, members[i].id, members[i].title)])
    \o << Blank, Plain("h_log"), Placeholder >>

\* The two header lines initialize() writes to messages.txt.
InitialMessages == << [kind |-> "header1", user |-> "", permalink |-> BuildPermalink("", 0),
                       category |-> "", summary |-> << >>],
                      [kind |-> "header2", user |-> "", permalink |-> BuildPermalink("", 0),
                       category |-> "", summary |-> << >>] >>

\* The line log_message appends.
MessageLine(user, permalink, category, summary) ==
    [kind |-> "message", user |-> user, permalink |-> permalink,
     category |-> category, summary |-> summary]

\* A variant of apply_update that never looks for the placeholder.
ApplyEntryAppendOnly(content, entry) ==
    (IF RStripLines(content) = << >> THEN << Blank >> ELSE RStripLines(content)) \o << entry >>

\* apply_update's new content: the entry replaces the placeholder when the
\* content holds one, and is appended to the right-stripped content otherwise.
ApplyEntry(content, entry) ==
    IF \E i \in 1..Len(content) : content[i] = Placeholder
    THEN [i \in 1..Len(content) |-> IF content[i] = Placeholder THEN entry ELSE content[i]]
    ELSE (IF RStripLines(content) = << >> THEN << Blank >> ELSE RStripLines(content))
         \o << entry >>

\* A search for the marker that stops at the first Directory line, whoever
\* it names.
MarkerLineAnyMember(content, user_id) ==
    IF \E i \in 1..Len(content) : content[i].kind = "member"
    THEN CHOOSE i \in 1..Len(content) :
            content[i].kind = "member" /\ \A j \in 1..(i - 1) : content[j].kind # "member"
    ELSE 0

\* set_role: the index of the first line that holds the marker "(<@user_id>)",
\* 0 when no line does.
MarkerLine(content, user_id) ==
    IF \E i \in 1..Len(content) : content[i].kind = "member" /\ content[i].uid = user_id
    THEN CHOOSE i \in 1..Len(content) :
            /\ content[i].kind = "member" /\ content[i].uid = user_id
            /\ \A j \in 1..(i - 1) : ~(content[j].kind = "member" /\ content[j].uid = user_id)
    ELSE 0

\* A set_role that writes back what it read.
SetRoleContentKept(content, user_id, role) == content

\* set_role's new content: content.replace(line, new_line), the prefix of the
\* line up to the marker kept and the role replaced.
SetRoleContent(content, user_id, role) ==
    LET line == content[MarkerLine(content, user_id)]
        new_line == MemberLine(line.name, line.uid, role)
    IN [i \in 1..Len(content) |-> IF content[i] = line THEN new_line ELSE content[i]]

\* The decision entries of a text, in order.
Entries(lines) == SelectSeq(lines, LAMBDA l : l.kind = "entry")

\* MAX_GROUND_TRUTH_WORDS
MAX_GROUND_TRUTH_WORDS == 1000

\* The number of words of an update text (every named text stands for a
\* sentence of ten words) and of the objective a team has written into its
\* Document in place of "(Set your team's objective here)".
TextWords == 10
ObjectiveWords == 965

\* len(line.split()) for the lines of a Document.
LineWords(l) ==
    CASE l.kind = "title" -> 4
      [] l.kind = "h_objective" -> 3
      [] l.kind = "objective_placeholder" -> 5
      [] l.kind = "objective" -> ObjectiveWords
      [] l.kind = "h_directory" -> 4
      [] l.kind = "no_members" -> 3
      [] l.kind = "member" -> IF l.role = "" THEN 3 ELSE 5
      [] l.kind = "h_log" -> 4
      [] l.kind = "log_placeholder" -> 8
      [] l.kind = "entry" -> 5 + TextWords * Len(SelectSeq(l.text, IsWord))
      [] OTHER -> 0

\* len(self.ground_truth.split())
RECURSIVE WordCount(_)
WordCount(lines) ==
    IF lines = << >> THEN 0 ELSE LineWords(Head(lines)) + WordCount(Tail(lines))

\* ProjectAgent.check_compaction
CheckCompaction(ground_truth) == WordCount(ground_truth) > MAX_GROUND_TRUTH_WORDS

\* compact_ground_truth: what the oracle makes of a Document, here the
\* Document with its decision entries summarized in one line.
CompactedText(ground_truth) ==
    SelectSeq(ground_truth, LAMBDA l : l.kind # "entry") \o << Plain("summary") >>

\* ------------------------------------------------------------- the ledger
\* One row of the events table (db.py); the timestamp column is left out.
EventRow(id, event_type, user, category, content, permalink) ==
    [id |-> id, event_type |-> event_type, user |-> user, category |-> category,
     content |-> content, permalink |-> permalink, reaction |-> NULL, reacted_by |-> NULL]

\* An id generator that starts over for every row.
NextRowIdRestarted(rows) == 1

\* AUTOINCREMENT: one more than the largest id the table ever held (rows are
\* never deleted).
NextRowId(rows) == Len(rows) + 1

\* UpdateReaction with the WHERE clause lost: every row is written.
UpdateReactionEveryRow(rows, event_id, reaction, reacted_by) ==
    [i \in 1..Len(rows) |->
        [rows[i] EXCEPT !.reaction = reaction, !.reacted_by = reacted_by]]

\* An update that also blanks the category of the row it writes.
UpdateReactionAndCategory(rows, event_id, reaction, reacted_by) ==
    [i \in 1..Len(rows) |->
        IF rows[i].id = event_id
        THEN [rows[i] EXCEPT !.reaction = reaction, !.reacted_by = reacted_by,
                             !.category = "general"]
        ELSE rows[i]]

\* An update that writes the oldest row, whatever id it is given.
UpdateReactionOldestRow(rows, event_id, reaction, reacted_by) ==
    [i \in 1..Len(rows) |->
        IF i = 1
        THEN [rows[i] EXCEPT !.reaction = reaction, !.reacted_by = reacted_by]
        ELSE rows[i]]

\* UPDATE events SET reaction = ?, reacted_by = ? WHERE id = ?
UpdateReaction(rows, event_id, reaction, reacted_by) ==
    [i \in 1..Len(rows) |->
        IF rows[i].id = event_id
        THEN [rows[i] EXCEPT !.reaction = reaction, !.reacted_by = reacted_by]
        ELSE rows[i]]

\* The position of the row with the largest id.
MaxIdIndex(rows) == CHOOSE i \in 1..Len(rows) : \A j \in 1..Len(rows) : rows[j].id <= rows[i].id

\* ORDER BY id DESC
RECURSIVE OrderByIdDesc(_)
OrderByIdDesc(rows) ==
    IF rows = << >> THEN << >>
    ELSE LET i == MaxIdIndex(rows)
         IN << rows[i] >> \o OrderByIdDesc(SubSeq(rows, 1, i - 1) \o SubSeq(rows, i + 1, Len(rows)))

\* LIMIT ? for a limit that is no negative number.
Limit(rows, limit) == SubSeq(rows, 1, IF limit < Len(rows) THEN limit ELSE Len(rows))

\* A listing that takes the first rows of the table and turns them round.
GetEventsOldest(rows, limit) == OrderByIdDesc(Limit(rows, limit))

\* get_events: SELECT * FROM events ORDER BY id DESC LIMIT ?
GetEvents(rows, limit) == Limit(OrderByIdDesc(rows), limit)

\* ------------------------------------------------------------ the registry
\* dict[key] = value, and the dict without a key.
DictPut(d, key, value) == [k \in DOMAIN d \cup {key} |-> IF k = key THEN value ELSE d[k]]
DictDel(d, key) == [k \in DOMAIN d \ {key} |-> d[k]]

\* The entry handle_message stores in _pending_updates.
\* An entry that does not keep the id log_event returned.
PendingUpdateUnlinked(update_text, channel_name, channel_id, thread_ts, category, user, permalink, event_id) ==
    [update_text |-> update_text, channel_name |-> channel_name, channel_id |-> channel_id,
     thread_ts |-> thread_ts, category |-> category, user |-> user, permalink |-> permalink,
     event_id |-> 0]

PendingUpdate(update_text, channel_name, channel_id, thread_ts, category, user, permalink, event_id) ==
    [update_text |-> update_text, channel_name |-> channel_name, channel_id |-> channel_id,
     thread_ts |-> thread_ts, category |-> category, user |-> user, permalink |-> permalink,
     event_id |-> event_id]

\* A pending nudge that loses the link to its Event.
PendingNudgeUnlinked(nudge_text, channel_name, thread_ts, user, event_id) ==
    [nudge_text |-> nudge_text, channel_name |-> channel_name, thread_ts |-> thread_ts,
     user |-> user, event_id |-> 0]

\* The entry handle_message stores in _pending_nudges.
PendingNudge(nudge_text, channel_name, thread_ts, user, event_id) ==
    [nudge_text |-> nudge_text, channel_name |-> channel_name, thread_ts |-> thread_ts,
     user |-> user, event_id |-> event_id]

NoPending == PendingNudge(<< >>, "", 0, "", 0)

\* -------------------------------------------------------------- the state
VARIABLES
    clock,            \* Slack's clock: the id of the latest message
    channels,         \* per channel id: the ids of its messages
    file,             \* per project: projects/<name>/ground_truth.txt
    msgfile,          \* per project: projects/<name>/messages.txt
    agents,           \* _agents: per project the cached ProjectAgent
    events,           \* per project: the rows of events.db
    pending_updates,  \* _pending_updates
    pending_nudges,   \* _pending_nudges
    posts,            \* the messages the bot has posted (a bag)
    errlog,           \* the exceptions handlers have raised (a bag)
    handlers,         \* the handlers in flight (a bag)
    repo,             \* the git repository the process runs in
    scratch,          \* the directories tempfile.mkdtemp has made that still exist
    verdict,          \* a verdict string given to _parse_category
    outcome,          \* what parsing and dispatch made of it
    compactions,      \* per project: the number of compact() calls made
    seen_prs,         \* _seen_prs of the GitHub monitor
    poller,           \* where the monitor's thread is: "sleeping", "polling" or "dead"
    checked,          \* per pull request: the check_pr calls made since the process started
    listed            \* what the last get_events call was given and returned

\* The state of git and of the scratch directories, and of a parse.
gitvars == << repo, scratch >>
parsevars == << verdict, outcome >>
compactvars == << compactions >>
pollvars == << seen_prs >>
monitorvars == << poller, checked >>
readvars == << listed >>

vars == << clock, channels, file, msgfile, agents, events, pending_updates, pending_nudges,
           posts, errlog, handlers, gitvars, parsevars, compactvars, pollvars, monitorvars, readvars >>

\* No pull request has been checked, and get_events has not been called.
NoChecks == [pr \in {1, 2} |-> 0]
NoListing == [project |-> "", limit |-> 0, rows |-> << >>]

\* No git executable: every subprocess.run(["git", ...]) raises.
NoGit == [available |-> FALSE, branches |-> {}, commits |-> << >>, worktrees |-> {}]

\* A git repository with no project branch yet.  commits is the sequence of
\* commits made to project branches, worktrees the directories registered as
\* working trees.
Repository == [NoGit EXCEPT !.available = TRUE]

\* No verdict has been parsed.
NoOutcome == [done |-> FALSE, result |-> << >>, category |-> "", branch |-> ""]

NoAgent == [exists |-> FALSE, ground_truth |-> << >>, messages |-> << >>]

\* _get_agent: the cached agent, constructed from the files on first use.
GetAgent(ag, project) ==
    IF ag[project].exists THEN ag
    ELSE [ag EXCEPT ![project] = [exists |-> TRUE,
                                   ground_truth |-> LoadFile(file[project]),
                                   messages |-> LoadFile(msgfile[project])]]

\* reload_ground_truth on the agent of a project.
Reload(ag, project) ==
    [ag EXCEPT ![project] = [exists |-> TRUE,
                             ground_truth |-> LoadFile(file[project]),
                             messages |-> LoadFile(msgfile[project])]]

\* A handler in flight: the event it was given and its local variables.
Handler(kind, pc, channel, user, ts, thread_ts, body, reaction, role) ==
    [kind |-> kind, pc |-> pc, channel |-> channel, user |-> user, ts |-> ts,
     thread_ts |-> thread_ts, body |-> body, reaction |-> reaction, role |-> role,
     pool |-> "", decision |-> "", pending |-> NoPending, content |-> << >>,
     result |-> << >>, category |-> "", resp_ts |-> 0, event_id |-> 0, worktree_dir |-> 0,
     needs_compaction |-> FALSE, members |-> << >>]

Running == BagToSet(handlers)

Move(h, h2) == handlers' = (handlers (-) SetToBag({h})) (+) SetToBag({h2})
Finish(h) == handlers' = handlers (-) SetToBag({h})

\* An exception leaves the handler; Bolt logs it.
Raise(h, exc) ==
    /\ Finish(h)
    /\ errlog' = errlog (+) SetToBag({[exc |-> exc, kind |-> h.kind, pc |-> h.pc,
                                        channel |-> h.channel, ts |-> h.ts]})

\* A message posted by the bot; ts is its id when the code reads it, else 0.
Post(channel, thread_ts, text, ts) ==
    [channel |-> channel, thread_ts |-> thread_ts, text |-> text, ts |-> ts]

\* The ids Slack may give the next message of a channel: the clock's time or
\* the next one, later than every message of the channel.
FreshTs(channel, cap) ==
    {t \in {clock, clock + 1} :
        /\ t >= 1 /\ t <= cap
        /\ \A s \in channels[channel] : s < t}

Init ==
    /\ clock = 0
    /\ channels = [c \in Channels |-> {}]
    /\ file = [p \in Projects |-> NoFile]
    /\ msgfile = [p \in Projects |-> NoFile]
    /\ agents = [p \in Projects |-> NoAgent]
    /\ events = [p \in Projects |-> << >>]
    /\ pending_updates = << >>
    /\ pending_nudges = << >>
    /\ posts = EmptyBag
    /\ errlog = EmptyBag
    /\ handlers = EmptyBag
    /\ repo = NoGit
    /\ scratch = {}
    /\ verdict = << >>
    /\ outcome = NoOutcome
    /\ compactions = [p \in Projects |-> 0]
    /\ seen_prs = {}
    /\ poller = "sleeping"
    /\ checked = NoChecks
    /\ listed = NoListing

\* ------------------------------------------------------- event deliveries
\* What a specification lets Slack and the oracle deliver: the channels in
\* use, the largest message id, the handlers in flight at once, the verdict
\* kinds, the reply bodies and the reactions.
Scope(chans, cap, threads, kinds, bodies, reactions) ==
    [chans |-> chans, cap |-> cap, threads |-> threads, kinds |-> kinds,
     bodies |-> bodies, reactions |-> reactions]

\* Slack delivers a message event without thread_ts (a thread root).  Events
\* with bot_id or subtype return at once and are not modelled.
\* _check_text_approval returns False at once for a message without thread_ts.
DeliverMessage(sc) ==
    \E c \in sc.chans, u \in Authors :
    \E t \in FreshTs(c, sc.cap) :
        /\ BagCardinality(handlers) < sc.threads
        /\ clock' = t
        /\ channels' = [channels EXCEPT ![c] = @ \cup {t}]
        /\ handlers' = handlers (+) SetToBag({
               Handler("message", "classify", c, u, t, 0, "", "", "")})
        /\ UNCHANGED << gitvars, parsevars, compactvars, pollvars, monitorvars, readvars, file, msgfile, agents, events, pending_updates, pending_nudges,
                        posts, errlog >>

\* Slack delivers a message event with thread_ts: a reply, which carries the
\* id of a message of the channel.
DeliverReply(sc) ==
    \E c \in sc.chans, u \in Deciders, body \in sc.bodies :
    \E th \in channels[c], t \in FreshTs(c, sc.cap) :
        /\ BagCardinality(handlers) < sc.threads
        /\ clock' = t
        /\ channels' = [channels EXCEPT ![c] = @ \cup {t}]
        /\ handlers' = handlers (+) SetToBag({
               Handler("message", "text_updates", c, u, t, th, body, "", "")})
        /\ UNCHANGED << gitvars, parsevars, compactvars, pollvars, monitorvars, readvars, file, msgfile, agents, events, pending_updates, pending_nudges,
                        posts, errlog >>

\* Slack delivers reaction_added for a message of the channel.
DeliverReaction(sc) ==
    \E c \in sc.chans, u \in Deciders, r \in sc.reactions :
    \E t \in channels[c] :
        /\ BagCardinality(handlers) < sc.threads
        /\ handlers' = handlers (+) SetToBag({
               Handler("reaction", "reaction_nudges", c, u, t, 0, "", r, "")})
        /\ UNCHANGED << gitvars, parsevars, compactvars, pollvars, monitorvars, readvars, clock, channels, file, msgfile, agents, events, pending_updates,
                        pending_nudges, posts, errlog >>

\* Slack delivers app_mention: "@bot initialize" or "@bot role <role>".
DeliverMention(sc) ==
    \E c \in sc.chans, u \in Users, cmd \in {"initialize", "role"}, role \in Roles :
    \E t \in FreshTs(c, sc.cap) :
        /\ BagCardinality(handlers) < sc.threads
        /\ clock' = t
        /\ channels' = [channels EXCEPT ![c] = @ \cup {t}]
        /\ handlers' = handlers (+) SetToBag({
               [Handler("mention", IF cmd = "initialize" THEN "init_write" ELSE "role_read",
                        c, u, t, 0, "", "", IF cmd = "role" THEN role ELSE "")
                EXCEPT !.members = IF cmd = "initialize" THEN ChannelMembers(c) ELSE << >>]})
        /\ UNCHANGED << gitvars, parsevars, compactvars, pollvars, monitorvars, readvars, file, msgfile, agents, events, pending_updates, pending_nudges,
                        posts, errlog >>

\* ------------------------------------------- handle_message: classification
\* The project a handler's event belongs to.
ProjectOf(h) == ChannelName(h.channel)

\* A dispatcher that takes a branch for every verdict.
DispatchesAlways(result) == TRUE

\* The if/elif chain of handle_message takes a branch: the parsed verdict
\* starts with "ROUTE:", "UPDATE:", "MISALIGN:" or "QUESTION:".
Dispatches(result) ==
    \E k \in {"ROUTE", "UPDATE", "MISALIGN", "QUESTION"} : StartsWith(result, k)

\* handle_message after _check_text_approval returned False: the agent is
\* looked up and the oracle classifies the message.  PASS ends the handler.
Classify(sc) ==
    \E h \in Running : \E raw \in {v \in Verdicts(h.ts) : v[1] \in sc.kinds} :
        LET parsed == ParseCategory(raw)
        IN /\ h.pc = "classify"
           /\ agents' = GetAgent(agents, ProjectOf(h))
           /\ IF Dispatches(parsed.result)
              THEN Move(h, [h EXCEPT !.pc = "say", !.result = parsed.result,
                                     !.category = parsed.category])
              ELSE Finish(h)
           /\ UNCHANGED << gitvars, parsevars, compactvars, pollvars, monitorvars, readvars, clock, channels, file, msgfile, events, pending_updates,
                           pending_nudges, posts, errlog >>

\* say(...): the nudge of a ROUTE, the proposal of an UPDATE, the warning of a
\* MISALIGN or QUESTION, posted in the thread of the message.  The id of the
\* posted message is read for all but ROUTE.
Say(sc) ==
    \E h \in Running :
        /\ h.pc = "say"
        /\ IF StartsWith(h.result, "ROUTE")
           THEN /\ posts' = posts (+) SetToBag({[target |-> RouteTarget(h.result)]
                                                  @@ Post(h.channel, h.ts, "route", 0)})
                /\ Move(h, [h EXCEPT !.pc = "log_message"])
                /\ UNCHANGED << clock, channels >>
           ELSE \E t \in FreshTs(h.channel, sc.cap) :
                /\ clock' = t
                /\ channels' = [channels EXCEPT ![h.channel] = @ \cup {t}]
                /\ posts' = posts (+) SetToBag({Post(h.channel, h.ts,
                       IF StartsWith(h.result, "UPDATE") THEN "proposal" ELSE "warning", t)})
                /\ Move(h, [h EXCEPT !.resp_ts = t,
                                     !.pc = IF StartsWith(h.result, "UPDATE")
                                            THEN "log_event" ELSE "log_message"])
        /\ UNCHANGED << gitvars, parsevars, compactvars, pollvars, monitorvars, readvars, file, msgfile, agents, events, pending_updates, pending_nudges,
                        errlog >>

\* ProjectAgent.log_message: one line appended to messages.txt, the cached
\* message log reloaded.
\* An append that does not reload self.messages.
AppendMessageUncached(project, line) ==
    /\ msgfile' = [msgfile EXCEPT ![project] = FileOf(@.lines \o << line >>)]
    /\ agents' = agents

AppendMessage(project, line) ==
    /\ msgfile' = [msgfile EXCEPT ![project] = FileOf(@.lines \o << line >>)]
    /\ agents' = [agents EXCEPT ![project].messages =
                     LoadFile(FileOf(msgfile[project].lines \o << line >>))]

\* agent.log_message(user, permalink, category, content) of a ROUTE, MISALIGN
\* or QUESTION verdict.
\* A branch that logs its message twice.
ClassifyLogMessageTwice ==
    \E h \in Running :
        LET line == MessageLine(h.user, BuildPermalink(h.channel, h.ts), h.category,
                                ContentOf(h.result))
        IN /\ h.pc = "log_message"
           /\ msgfile' = [msgfile EXCEPT ![ProjectOf(h)] = FileOf(@.lines \o << line, line >>)]
           /\ agents' = [agents EXCEPT ![ProjectOf(h)].messages =
                            LoadFile(FileOf(msgfile[ProjectOf(h)].lines \o << line, line >>))]
           /\ Move(h, [h EXCEPT !.pc = "log_event"])
           /\ UNCHANGED << gitvars, parsevars, compactvars, pollvars, monitorvars, readvars, clock, channels, file, events, pending_updates, pending_nudges,
                           posts, errlog >>

ClassifyLogMessage ==
    \E h \in Running :
        /\ h.pc = "log_message"
        /\ AppendMessage(ProjectOf(h),
               MessageLine(h.user, BuildPermalink(h.channel, h.ts), h.category,
                           ContentOf(h.result)))
        /\ Move(h, [h EXCEPT !.pc = "log_event"])
        /\ UNCHANGED << gitvars, parsevars, compactvars, pollvars, monitorvars, readvars, clock, channels, file, events, pending_updates, pending_nudges,
                        posts, errlog >>

\* db.log_event: a row is inserted and its id returned.  ROUTE ends here.
LogEvent ==
    \E h \in Running :
        LET project == ProjectOf(h)
            id == NextRowId(events[project])
        IN /\ h.pc = "log_event"
           /\ events' = [events EXCEPT ![project] =
                 Append(@, EventRow(id, h.result[1], h.user, h.category,
                                    ContentOf(h.result), BuildPermalink(h.channel, h.ts)))]
           /\ IF StartsWith(h.result, "ROUTE")
              THEN Finish(h)
              ELSE Move(h, [h EXCEPT !.pc = "put", !.event_id = id])
           /\ UNCHANGED << gitvars, parsevars, compactvars, pollvars, monitorvars, readvars, clock, channels, file, msgfile, agents, pending_updates,
                           pending_nudges, posts, errlog >>

\* PendingKey taking the id of the originating message for the key.
PendingKeyOrigin(h) == h.ts

\* The key under which handle_message registers the pending action: the id of
\* the posted proposal, response["ts"].
PendingKey(h) == h.resp_ts

\* _pending_updates[response["ts"]] = {...} and _pending_nudges[response["ts"]] = {...}
Put ==
    \E h \in Running :
        /\ h.pc = "put"
        /\ IF StartsWith(h.result, "UPDATE")
           THEN /\ pending_updates' = DictPut(pending_updates, PendingKey(h),
                      PendingUpdate(ContentOf(h.result), ProjectOf(h), h.channel, h.ts,
                                    h.category, h.user, BuildPermalink(h.channel, h.ts),
                                    h.event_id))
                /\ UNCHANGED pending_nudges
           ELSE /\ pending_nudges' = DictPut(pending_nudges, PendingKey(h),
                      PendingNudge(ContentOf(h.result), ProjectOf(h), h.ts, h.user,
                                   h.event_id))
                /\ UNCHANGED pending_updates
        /\ Finish(h)
        /\ UNCHANGED << gitvars, parsevars, compactvars, pollvars, monitorvars, readvars, clock, channels, file, msgfile, agents, events, posts, errlog >>

\* ------------------------------------------------------ _check_text_approval
\* `if thread_ts in _pending_updates:` and the test of the word.
TextCheckUpdates ==
    \E h \in Running :
        LET word == StripLower(h.body)
        IN /\ h.pc = "text_updates"
           /\ IF h.thread_ts \in DOMAIN pending_updates /\ word \in APPROVE_WORDS
              THEN Move(h, [h EXCEPT !.pc = "text_pop", !.pool = "update",
                                     !.decision = "approved"])
              ELSE IF h.thread_ts \in DOMAIN pending_updates /\ word \in REJECT_WORDS
              THEN Move(h, [h EXCEPT !.pc = "text_pop", !.pool = "update",
                                     !.decision = "rejected"])
              ELSE Move(h, [h EXCEPT !.pc = "text_nudges"])
           /\ UNCHANGED << gitvars, parsevars, compactvars, pollvars, monitorvars, readvars, clock, channels, file, msgfile, agents, events, pending_updates,
                           pending_nudges, posts, errlog >>

\* `if thread_ts in _pending_nudges:` and the test of the word; a reply that
\* resolves nothing is classified like any message.
TextCheckNudges ==
    \E h \in Running :
        LET word == StripLower(h.body)
        IN /\ h.pc = "text_nudges"
           /\ IF h.thread_ts \in DOMAIN pending_nudges /\ word \in APPROVE_WORDS
              THEN Move(h, [h EXCEPT !.pc = "text_pop", !.pool = "nudge",
                                     !.decision = "approved"])
              ELSE IF h.thread_ts \in DOMAIN pending_nudges /\ word \in REJECT_WORDS
              THEN Move(h, [h EXCEPT !.pc = "text_pop", !.pool = "nudge",
                                     !.decision = "rejected"])
              ELSE Move(h, [h EXCEPT !.pc = "classify"])
           /\ UNCHANGED << gitvars, parsevars, compactvars, pollvars, monitorvars, readvars, clock, channels, file, msgfile, agents, events, pending_updates,
                           pending_nudges, posts, errlog >>

\* AfterRemoval with the test of the decision lost: every resolved update is
\* applied.
AfterRemovalAlwaysApply(h) == IF h.pool = "update" THEN "apply_read" ELSE "react"

\* The pc of a handler that has just removed its key: an approved update is
\* applied, everything else goes straight to update_reaction.
AfterRemoval(h) == IF h.pool = "update" /\ h.decision = "approved" THEN "apply_read" ELSE "react"

\* RemoveKey as dict.pop(key, None) would behave: a missing key is passed over
\* and the handler goes on.
RemoveKeyLenient(h, key) ==
    LET pool == IF h.pool = "update" THEN pending_updates ELSE pending_nudges
    IN /\ IF h.pool = "update"
          THEN /\ pending_updates' = DictDel(pending_updates, key)
               /\ UNCHANGED pending_nudges
          ELSE /\ pending_nudges' = DictDel(pending_nudges, key)
               /\ UNCHANGED pending_updates
       /\ Move(h, [h EXCEPT !.pc = AfterRemoval(h),
                            !.pending = IF h.kind = "message" /\ key \in DOMAIN pool
                                        THEN pool[key] ELSE @])
       /\ UNCHANGED errlog

\* RemoveKey with the removal forgotten: the entry is read and stays registered.
RemoveKeyKeep(h, key) ==
    LET pool == IF h.pool = "update" THEN pending_updates ELSE pending_nudges
    IN IF key \in DOMAIN pool
       THEN /\ Move(h, [h EXCEPT !.pc = AfterRemoval(h),
                                 !.pending = IF h.kind = "message" THEN pool[key] ELSE @])
            /\ UNCHANGED << pending_updates, pending_nudges, errlog >>
       ELSE /\ Raise(h, "KeyError")
            /\ UNCHANGED << pending_updates, pending_nudges >>

\* dict.pop(key) and `del dict[key]`: the key is removed and the handler goes
\* on with the entry; a missing key raises KeyError.
RemoveKey(h, key) ==
    LET pool == IF h.pool = "update" THEN pending_updates ELSE pending_nudges
    IN IF key \in DOMAIN pool
       THEN /\ IF h.pool = "update"
               THEN /\ pending_updates' = DictDel(pending_updates, key)
                    /\ UNCHANGED pending_nudges
               ELSE /\ pending_nudges' = DictDel(pending_nudges, key)
                    /\ UNCHANGED pending_updates
            /\ Move(h, [h EXCEPT !.pc = AfterRemoval(h),
                                 !.pending = IF h.kind = "message" THEN pool[key] ELSE @])
            /\ UNCHANGED errlog
       ELSE /\ Raise(h, "KeyError")
            /\ UNCHANGED << pending_updates, pending_nudges >>

\* pending = _pending_updates.pop(thread_ts) / _pending_nudges.pop(thread_ts)
TextPop ==
    \E h \in Running :
        /\ h.pc = "text_pop"
        /\ RemoveKey(h, h.thread_ts)
        /\ UNCHANGED << gitvars, parsevars, compactvars, pollvars, monitorvars, readvars, clock, channels, file, msgfile, agents, events, posts >>

\* ------------------------------------------------------------ handle_reaction
\* `if msg_ts in _pending_nudges:`
ReactionCheckNudges ==
    \E h \in Running :
        /\ h.pc = "reaction_nudges"
        /\ IF h.ts \in DOMAIN pending_nudges
           THEN Move(h, [h EXCEPT !.pc = "reaction_read", !.pool = "nudge"])
           ELSE Move(h, [h EXCEPT !.pc = "reaction_updates"])
        /\ UNCHANGED << gitvars, parsevars, compactvars, pollvars, monitorvars, readvars, clock, channels, file, msgfile, agents, events, pending_updates,
                        pending_nudges, posts, errlog >>

\* `if msg_ts not in _pending_updates: return`
ReactionCheckUpdates ==
    \E h \in Running :
        /\ h.pc = "reaction_updates"
        /\ IF h.ts \in DOMAIN pending_updates
           THEN Move(h, [h EXCEPT !.pc = "reaction_read", !.pool = "update"])
           ELSE Finish(h)
        /\ UNCHANGED << gitvars, parsevars, compactvars, pollvars, monitorvars, readvars, clock, channels, file, msgfile, agents, events, pending_updates,
                        pending_nudges, posts, errlog >>

\* pending = _pending_updates[msg_ts] / _pending_nudges[msg_ts], KeyError when
\* the key is gone; then the test of the reaction, which ends the handler when
\* the reaction is in neither set.
ReactionRead ==
    \E h \in Running :
        LET pool == IF h.pool = "update" THEN pending_updates ELSE pending_nudges
        IN /\ h.pc = "reaction_read"
           /\ IF h.ts \notin DOMAIN pool
              THEN Raise(h, "KeyError")
              ELSE /\ IF h.reaction \in APPROVE_REACTIONS
                      THEN Move(h, [h EXCEPT !.pc = "reaction_del", !.pending = pool[h.ts],
                                             !.decision = "approved"])
                      ELSE IF h.reaction \in REJECT_REACTIONS
                      THEN Move(h, [h EXCEPT !.pc = "reaction_del", !.pending = pool[h.ts],
                                             !.decision = "rejected"])
                      ELSE Finish(h)
                   /\ UNCHANGED errlog
           /\ UNCHANGED << gitvars, parsevars, compactvars, pollvars, monitorvars, readvars, clock, channels, file, msgfile, agents, events, pending_updates,
                           pending_nudges, posts >>

\* del _pending_updates[msg_ts] / del _pending_nudges[msg_ts]
ReactionDel ==
    \E h \in Running :
        /\ h.pc = "reaction_del"
        /\ RemoveKey(h, h.ts)
        /\ UNCHANGED << gitvars, parsevars, compactvars, pollvars, monitorvars, readvars, clock, channels, file, msgfile, agents, events, posts >>

\* --------------------------------------------- the resolution of a decision
\* The user recorded as decider: the deciding user for an update, "" for a nudge.
Decider(h) == IF h.pool = "update" THEN h.user ELSE ""

\* apply_update, first part: agent = _get_agent(pending["channel_name"]) and
\* content = path.read_text() if path.exists() else "".
ApplyRead ==
    \E h \in Running :
        LET project == h.pending.channel_name
        IN /\ h.pc = "apply_read"
           /\ agents' = GetAgent(agents, project)
           /\ Move(h, [h EXCEPT !.pc = "apply_write",
                                !.content = IF file[project].exists
                                            THEN file[project].lines ELSE << >>])
           /\ UNCHANGED << gitvars, parsevars, compactvars, pollvars, monitorvars, readvars, clock, channels, file, msgfile, events, pending_updates,
                           pending_nudges, posts, errlog >>

\* The content apply_update writes for the update a handler holds.
AppliedContent(h) ==
    ApplyEntry(h.content, EntryLine(h.pending.update_text, h.user))

\* apply_update, second part: self._write_file("ground_truth.txt", content).
\* The write may fail (OSError), which ends the handler.
ApplyWrite ==
    \E h \in Running :
        /\ h.pc = "apply_write"
        /\ \/ /\ file' = [file EXCEPT ![h.pending.channel_name] = FileOf(AppliedContent(h))]
              /\ Move(h, [h EXCEPT !.pc = "apply_reload", !.content = << >>])
              /\ UNCHANGED errlog
           \/ /\ Raise(h, "OSError")
              /\ UNCHANGED file
        /\ UNCHANGED << gitvars, parsevars, compactvars, pollvars, monitorvars, readvars, clock, channels, msgfile, agents, events, pending_updates,
                        pending_nudges, posts >>

\* apply_update, third part: self.reload_ground_truth().  _git_commit and
\* check_compaction follow; the handlers ignore the result.  Without a git
\* executable the first subprocess.run of _git_commit raises, the exception
\* is caught and apply_update returns.
ApplyReload ==
    \E h \in Running :
        /\ h.pc = "apply_reload"
        /\ agents' = Reload(agents, h.pending.channel_name)
        /\ Move(h, IF repo.available
                   THEN [h EXCEPT !.pc = "git_verify"]
                   ELSE [h EXCEPT !.pc = "resolve_log",
                                  !.needs_compaction =
                                      CheckCompaction(LoadFile(file[h.pending.channel_name]))])
        /\ UNCHANGED << gitvars, parsevars, compactvars, pollvars, monitorvars, readvars, clock, channels, file, msgfile, events, pending_updates,
                        pending_nudges, posts, errlog >>

\* ------------------------------------------------- ProjectAgent._git_commit
\* The positions of a handler inside _git_commit.
GitPcs == {"git_verify", "git_branch", "git_mkdtemp", "git_worktree", "git_copy", "git_add",
           "git_commit", "git_remove"}

\* The outcomes of subprocess.run: exit status 0, another exit status, or an
\* exception of the call itself (the executable cannot be started).
Outcomes == {"ok", "nonzero", "raise"}

\* branch = f"project/{self.name}"
BranchOf(h) == h.pending.channel_name

\* _git_commit returns, and apply_update with it.
CommitReturn(h) ==
    [h EXCEPT !.pc = "resolve_log", !.worktree_dir = 0, !.content = << >>,
              !.needs_compaction = CheckCompaction(agents[BranchOf(h)].ground_truth)]

\* The exception handler of _git_commit has logged; the finally clause
\* removes the worktree when worktree_dir is set.
CommitFailed(h) ==
    IF h.worktree_dir # 0 THEN [h EXCEPT !.pc = "git_remove"] ELSE CommitReturn(h)

\* The name tempfile.mkdtemp picks: one no existing directory has.
FreshDir == CHOOSE d \in 1..(Cardinality(scratch) + 1) : d \notin scratch

\* git rev-parse --verify branch: exit status 0 only when the branch exists;
\* a call that raises ends the commit.
GitVerify ==
    \E h \in Running, o \in Outcomes :
        /\ h.pc = "git_verify"
        /\ o = "ok" => BranchOf(h) \in repo.branches
        /\ Move(h, CASE o = "ok" -> [h EXCEPT !.pc = "git_mkdtemp"]
                      [] o = "nonzero" -> [h EXCEPT !.pc = "git_branch"]
                      [] o = "raise" -> CommitFailed(h))
        /\ UNCHANGED << gitvars, parsevars, compactvars, pollvars, monitorvars, readvars, clock, channels, file, msgfile, agents, events,
                        pending_updates, pending_nudges, posts, errlog >>

\* git branch <branch> with check=True: succeeds only for a new branch.
GitBranch ==
    \E h \in Running, o \in Outcomes :
        /\ h.pc = "git_branch"
        /\ o = "ok" => BranchOf(h) \notin repo.branches
        /\ repo' = IF o = "ok" THEN [repo EXCEPT !.branches = @ \cup {BranchOf(h)}] ELSE repo
        /\ Move(h, IF o = "ok" THEN [h EXCEPT !.pc = "git_mkdtemp"] ELSE CommitFailed(h))
        /\ UNCHANGED << scratch, parsevars, compactvars, pollvars, monitorvars, readvars, clock, channels, file, msgfile, agents, events,
                        pending_updates, pending_nudges, posts, errlog >>

\* worktree_dir = Path(tempfile.mkdtemp(prefix="gt-"))
GitMkdtemp ==
    \E h \in Running, o \in {"ok", "raise"} :
        /\ h.pc = "git_mkdtemp"
        /\ scratch' = IF o = "ok" THEN scratch \cup {FreshDir} ELSE scratch
        /\ Move(h, IF o = "ok" THEN [h EXCEPT !.pc = "git_worktree", !.worktree_dir = FreshDir]
                   ELSE CommitFailed(h))
        /\ UNCHANGED << repo, parsevars, compactvars, pollvars, monitorvars, readvars, clock, channels, file, msgfile, agents, events,
                        pending_updates, pending_nudges, posts, errlog >>

\* git worktree add <dir> <branch> with check=True: git refuses a branch that
\* is checked out in another working tree.  A git that fails after it began
\* to populate the directory may delete it; otherwise the directory stays.
GitWorktreeAdd ==
    \E h \in Running, o \in Outcomes, cleaned \in BOOLEAN :
        /\ h.pc = "git_worktree"
        /\ cleaned => o = "nonzero"
        /\ scratch' = IF cleaned THEN scratch \ {h.worktree_dir} ELSE scratch
        /\ o = "ok" => /\ BranchOf(h) \in repo.branches
                       /\ \A w \in repo.worktrees : w.branch # BranchOf(h)
        /\ repo' = IF o = "ok"
                   THEN [repo EXCEPT !.worktrees =
                            @ \cup {[dir |-> h.worktree_dir, branch |-> BranchOf(h)]}]
                   ELSE repo
        /\ Move(h, IF o = "ok" THEN [h EXCEPT !.pc = "git_copy"] ELSE CommitFailed(h))
        /\ UNCHANGED << parsevars, compactvars, pollvars, monitorvars, readvars, clock, channels, file, msgfile, agents, events,
                        pending_updates, pending_nudges, posts, errlog >>

\* dest.parent.mkdir(...) and shutil.copy2(gt_path, dest): the snapshot of
\* ground_truth.txt is in the working tree, or the copy raises.
GitCopy ==
    \E h \in Running, o \in {"ok", "raise"} :
        /\ h.pc = "git_copy"
        /\ o = "ok" => file[BranchOf(h)].exists
        /\ Move(h, IF o = "ok"
                   THEN [h EXCEPT !.pc = "git_add", !.content = file[BranchOf(h)].lines]
                   ELSE CommitFailed(h))
        /\ UNCHANGED << gitvars, parsevars, compactvars, pollvars, monitorvars, readvars, clock, channels, file, msgfile, agents, events,
                        pending_updates, pending_nudges, posts, errlog >>

\* git -C <dir> add <path> with check=True
GitAdd ==
    \E h \in Running, o \in Outcomes :
        /\ h.pc = "git_add"
        /\ Move(h, IF o = "ok" THEN [h EXCEPT !.pc = "git_commit"] ELSE CommitFailed(h))
        /\ UNCHANGED << gitvars, parsevars, compactvars, pollvars, monitorvars, readvars, clock, channels, file, msgfile, agents, events,
                        pending_updates, pending_nudges, posts, errlog >>

\* git -C <dir> commit -m "ground truth: <summary> (approved by <user>)" with
\* check=True; then the finally clause.
GitCommit ==
    \E h \in Running, o \in Outcomes :
        /\ h.pc = "git_commit"
        /\ repo' = IF o = "ok"
                   THEN [repo EXCEPT !.commits = Append(@,
                            [branch |-> BranchOf(h), summary |-> h.pending.update_text,
                             approved_by |-> h.user, snapshot |-> h.content])]
                   ELSE repo
        /\ Move(h, [h EXCEPT !.pc = "git_remove"])
        /\ UNCHANGED << scratch, parsevars, compactvars, pollvars, monitorvars, readvars, clock, channels, file, msgfile, agents, events,
                        pending_updates, pending_nudges, posts, errlog >>

\* finally: git worktree remove --force <dir>, without check and outside the
\* try: a registered working tree is removed with its directory; another
\* exit status is ignored; an exception of the call leaves _git_commit.
GitRemove ==
    \E h \in Running, o \in Outcomes :
        LET w == [dir |-> h.worktree_dir, branch |-> BranchOf(h)]
        IN /\ h.pc = "git_remove"
           /\ o = "ok" => w \in repo.worktrees
           /\ IF o = "ok"
              THEN /\ repo' = [repo EXCEPT !.worktrees = @ \ {w}]
                   /\ scratch' = scratch \ {h.worktree_dir}
              ELSE UNCHANGED gitvars
           /\ IF o = "raise"
              THEN Raise(h, "OSError")
              ELSE Move(h, CommitReturn(h)) /\ UNCHANGED errlog
           /\ UNCHANGED << parsevars, compactvars, pollvars, monitorvars, readvars, clock, channels, file, msgfile, agents, events,
                           pending_updates, pending_nudges, posts >>

\* agent.log_message(pending["user"], pending["permalink"], pending["category"],
\* pending["update_text"]) after an approved update.
\* An approval that goes on to the disposition without the message log.
ResolveLogMessageSkipped ==
    \E h \in Running :
        /\ h.pc = "resolve_log"
        /\ Move(h, [h EXCEPT !.pc = "react"])
        /\ UNCHANGED << gitvars, parsevars, compactvars, pollvars, monitorvars, readvars, clock, channels, file, msgfile, agents, events, pending_updates, pending_nudges,
                        posts, errlog >>

ResolveLogMessage ==
    \E h \in Running :
        /\ h.pc = "resolve_log"
        /\ AppendMessage(h.pending.channel_name,
               MessageLine(h.pending.user, h.pending.permalink, h.pending.category,
                           h.pending.update_text))
        /\ Move(h, [h EXCEPT !.pc = "react"])
        /\ UNCHANGED << gitvars, parsevars, compactvars, pollvars, monitorvars, readvars, clock, channels, file, events, pending_updates, pending_nudges,
                        posts, errlog >>

\* update_reaction on one database that all projects share.
ReactEveryProject ==
    \E h \in Running :
        /\ h.pc = "react"
        /\ events' = [p \in Projects |->
              UpdateReaction(events[p], h.pending.event_id, h.decision, Decider(h))]
        /\ Move(h, [h EXCEPT !.pc = "confirm"])
        /\ UNCHANGED << gitvars, parsevars, compactvars, pollvars, monitorvars, readvars, clock,
                        channels, file, msgfile, agents, pending_updates, pending_nudges, posts,
                        errlog >>

\* update_reaction(pending["channel_name"], pending["event_id"], decision, decider)
React ==
    \E h \in Running :
        /\ h.pc = "react"
        /\ events' = [events EXCEPT ![h.pending.channel_name] =
              UpdateReaction(@, h.pending.event_id, h.decision, Decider(h))]
        /\ Move(h, [h EXCEPT !.pc = "confirm"])
        /\ UNCHANGED << gitvars, parsevars, compactvars, pollvars, monitorvars, readvars, clock, channels, file, msgfile, agents, pending_updates,
                        pending_nudges, posts, errlog >>

\* The text of the confirmation client.chat_postMessage posts.
Confirmation(h) ==
    CASE h.pool = "update" /\ h.decision = "approved" -> "updated"
      [] h.pool = "update" /\ h.decision = "rejected" -> "discarded"
      [] h.pool = "nudge" /\ h.decision = "approved" -> "off_track"
      [] h.pool = "nudge" /\ h.decision = "rejected" -> "on_track"

\* client.chat_postMessage(channel=channel_id, text=..., thread_ts=pending["thread_ts"])
Confirm ==
    \E h \in Running :
        /\ h.pc = "confirm"
        /\ posts' = posts (+) SetToBag({Post(h.channel, h.pending.thread_ts,
                                             Confirmation(h), 0)})
        /\ IF h.kind = "reaction" /\ h.pool = "update" /\ h.decision = "approved"
           THEN Move(h, [h EXCEPT !.pc = "validate"])
           ELSE Finish(h)
        /\ UNCHANGED << gitvars, parsevars, compactvars, pollvars, monitorvars, readvars, clock, channels, file, msgfile, agents, events, pending_updates,
                        pending_nudges, errlog >>

\* The ids conversations_members returns for a channel.
MemberIds(channel_id) ==
    {ChannelMembers(channel_id)[i].id : i \in 1..Len(ChannelMembers(channel_id))}

\* re.findall(r"<@(U[A-Z0-9]+)>", text): the user ids a text mentions, in
\* order; a Directory line mentions its member, an entry its approver.
RECURSIVE MentionedIds(_)
MentionedIds(lines) ==
    IF lines = << >> THEN << >>
    ELSE (CASE Head(lines).kind = "member" /\ Head(lines).uid # "" -> << Head(lines).uid >>
            [] Head(lines).kind = "entry" /\ Head(lines).by # "" -> << Head(lines).by >>
            [] OTHER -> << >>)
         \o MentionedIds(Tail(lines))

\* ProjectAgent.validate_directory: the mentioned ids that are not members.
ValidateDirectory(ground_truth, channel_members) ==
    SelectSeq(MentionedIds(ground_truth), LAMBDA uid : uid \notin channel_members)

\* The warning that lists the missing members.
MissingWarning(channel, thread_ts, missing) ==
    [missing |-> missing] @@ Post(channel, thread_ts, "directory_warning", 0)

\* handle_reaction after the confirmation of an approved update: the members
\* of the channel are fetched, the Directory is validated against them and a
\* warning is posted when ids are missing.  A failure of the lookup is caught
\* and the validation is skipped.
ValidateChecked ==
    \E h \in Running :
        LET missing == ValidateDirectory(agents[h.pending.channel_name].ground_truth,
                                         MemberIds(h.channel))
        IN /\ h.pc = "validate"
           /\ posts' = IF missing # << >>
                       THEN posts (+) SetToBag({MissingWarning(h.channel,
                                                    h.pending.thread_ts, missing)})
                       ELSE posts
           /\ Finish(h)
           /\ UNCHANGED << gitvars, parsevars, compactvars, pollvars, monitorvars, readvars, clock, channels, file, msgfile, agents, events,
                           pending_updates, pending_nudges, errlog >>

\* A failure of the lookup that is not caught.
ValidateRaises ==
    \E h \in Running :
        /\ h.pc = "validate"
        /\ Raise(h, "SlackApiError")
        /\ UNCHANGED << gitvars, parsevars, compactvars, pollvars, monitorvars, readvars, clock, channels, file, msgfile, agents, events,
                        pending_updates, pending_nudges, posts >>

\* client.conversations_members (or the posting of the warning) raises:
\* `except Exception` catches it, log.debug notes it and the handler returns.
ValidateSkipped ==
    \E h \in Running :
        /\ h.pc = "validate"
        /\ Finish(h)
        /\ UNCHANGED << gitvars, parsevars, compactvars, pollvars, monitorvars, readvars, clock, channels, file, msgfile, agents, events,
                        pending_updates, pending_nudges, posts, errlog >>

Validate ==
    \/ ValidateChecked
    \/ ValidateSkipped

\* ---------------------------------------------------------- handle_app_mention
\* "@bot initialize": members = _fetch_channel_members(client, channel_id) was
\* read when the handler started; agent.initialize(members) writes
\* ground_truth.txt ...
InitWrite ==
    \E h \in Running :
        /\ h.pc = "init_write"
        /\ agents' = GetAgent(agents, ProjectOf(h))
        /\ file' = [file EXCEPT ![ProjectOf(h)] = FileOf(InitialGroundTruth(h.members))]
        /\ Move(h, [h EXCEPT !.pc = "init_messages"])
        /\ UNCHANGED << gitvars, parsevars, compactvars, pollvars, monitorvars, readvars, clock, channels, msgfile, events, pending_updates, pending_nudges,
                        posts, errlog >>

\* ... then messages.txt ...
InitWriteMessages ==
    \E h \in Running :
        /\ h.pc = "init_messages"
        /\ msgfile' = [msgfile EXCEPT ![ProjectOf(h)] = FileOf(InitialMessages)]
        /\ Move(h, [h EXCEPT !.pc = "init_reload"])
        /\ UNCHANGED << gitvars, parsevars, compactvars, pollvars, monitorvars, readvars, clock, channels, file, agents, events, pending_updates,
                        pending_nudges, posts, errlog >>

\* ... and reloads the cache.
InitReload ==
    \E h \in Running :
        /\ h.pc = "init_reload"
        /\ agents' = Reload(agents, ProjectOf(h))
        /\ Move(h, [h EXCEPT !.pc = "mention_say", !.decision = "initialized"])
        /\ UNCHANGED << gitvars, parsevars, compactvars, pollvars, monitorvars, readvars, clock, channels, file, msgfile, events, pending_updates,
                        pending_nudges, posts, errlog >>

\* "@bot role <role>": set_role reads ground_truth.txt and looks for the line
\* with the user's marker; a missing file or marker gives a not-found message.
RoleRead ==
    \E h \in Running :
        LET project == ProjectOf(h)
            content == file[project].lines
        IN /\ h.pc = "role_read"
           /\ agents' = GetAgent(agents, project)
           /\ IF ~file[project].exists
              THEN Move(h, [h EXCEPT !.pc = "mention_say", !.decision = "no_file"])
              ELSE IF MarkerLine(content, h.user) = 0
              THEN Move(h, [h EXCEPT !.pc = "mention_say", !.decision = "not_found"])
              ELSE Move(h, [h EXCEPT !.pc = "role_write", !.content = content])
           /\ UNCHANGED << gitvars, parsevars, compactvars, pollvars, monitorvars, readvars, clock, channels, file, msgfile, events, pending_updates,
                           pending_nudges, posts, errlog >>

\* set_role: self._write_file("ground_truth.txt", content)
RoleWrite ==
    \E h \in Running :
        /\ h.pc = "role_write"
        /\ file' = [file EXCEPT ![ProjectOf(h)] =
                       FileOf(SetRoleContent(h.content, h.user, h.role))]
        /\ Move(h, [h EXCEPT !.pc = "role_reload", !.content = << >>])
        /\ UNCHANGED << gitvars, parsevars, compactvars, pollvars, monitorvars, readvars, clock, channels, msgfile, agents, events, pending_updates,
                        pending_nudges, posts, errlog >>

\* set_role: self.reload_ground_truth()
RoleReload ==
    \E h \in Running :
        /\ h.pc = "role_reload"
        /\ agents' = Reload(agents, ProjectOf(h))
        /\ Move(h, [h EXCEPT !.pc = "mention_say", !.decision = "role_updated"])
        /\ UNCHANGED << gitvars, parsevars, compactvars, pollvars, monitorvars, readvars, clock, channels, file, msgfile, events, pending_updates,
                        pending_nudges, posts, errlog >>

\* say(result, thread_ts=thread_ts)
MentionSay ==
    \E h \in Running :
        /\ h.pc = "mention_say"
        /\ posts' = posts (+) SetToBag({Post(h.channel, h.ts, h.decision, 0)})
        /\ Finish(h)
        /\ UNCHANGED << gitvars, parsevars, compactvars, pollvars, monitorvars, readvars, clock, channels, file, msgfile, agents, events, pending_updates,
                        pending_nudges, errlog >>

\* ------------------------------------------------------- the specification
\* The steps handlers take once delivered.
Steps(sc) ==
    \/ Classify(sc)
    \/ Say(sc)
    \/ ClassifyLogMessage
    \/ LogEvent
    \/ Put
    \/ TextCheckUpdates
    \/ TextCheckNudges
    \/ TextPop
    \/ ReactionCheckNudges
    \/ ReactionCheckUpdates
    \/ ReactionRead
    \/ ReactionDel
    \/ ApplyRead
    \/ ApplyWrite
    \/ ApplyReload
    \/ ResolveLogMessage
    \/ React
    \/ Confirm
    \/ Validate

MentionSteps ==
    \/ InitWrite
    \/ InitWriteMessages
    \/ InitReload
    \/ RoleRead
    \/ RoleWrite
    \/ RoleReload
    \/ MentionSay

\* One project: every kind of event in the channel of project alpha.
OneProject == Scope({"C1"}, MaxTs, MaxThreads, Kinds, BodyInputs, ReactionInputs)

Next ==
    \/ DeliverMessage(OneProject)
    \/ DeliverReply(OneProject)
    \/ DeliverReaction(OneProject)
    \/ DeliverMention(OneProject)
    \/ Steps(OneProject)
    \/ MentionSteps

Spec == Init /\ [][Next]_vars

\* Two projects whose channels receive events one handler at a time.
TwoProjects == Scope(Channels, MaxTs, 1, {"UPDATE", "MISALIGN"}, BodyInputs, ReactionInputs)

NextTwoProjects ==
    \/ DeliverMessage(TwoProjects)
    \/ DeliverReply(TwoProjects)
    \/ DeliverReaction(TwoProjects)
    \/ Steps(TwoProjects)

SpecTwoProjects == Init /\ [][NextTwoProjects]_vars

\* Two proposals of one project, approved by reactions.
TwoUpdates == Scope({"C1"}, MaxTs + 1, MaxThreads, {"UPDATE"}, {}, {"white_check_mark"})

StepsTwoUpdates ==
    \/ Classify(TwoUpdates)
    \/ Say(TwoUpdates)
    \/ LogEvent
    \/ Put
    \/ ReactionCheckNudges
    \/ ReactionCheckUpdates
    \/ ReactionRead
    \/ ReactionDel
    \/ ApplyRead
    \/ ApplyWrite
    \/ ApplyReload
    \/ ResolveLogMessage
    \/ React
    \/ Confirm
    \/ Validate

NextTwoUpdates ==
    \/ DeliverMessage(TwoUpdates)
    \/ DeliverReaction(TwoUpdates)
    \/ StepsTwoUpdates

SpecTwoUpdates == Init /\ [][NextTwoUpdates]_vars

\* ------------------------------------------------------------ compaction
\* ProjectAgent.compact: the cached Document is given to the oracle, the
\* answer is written and reloaded.  No handler, command or timer of the
\* repository calls compact, so no next-state relation includes this action.
Compact ==
    \E p \in Projects :
        /\ agents[p].exists
        /\ file' = [file EXCEPT ![p] = FileOf(CompactedText(agents[p].ground_truth))]
        /\ agents' = [agents EXCEPT ![p].ground_truth =
                         StripLines(CompactedText(agents[p].ground_truth))]
        /\ compactions' = [compactions EXCEPT ![p] = @ + 1]
        /\ UNCHANGED << gitvars, parsevars, pollvars, monitorvars, readvars, clock, channels, msgfile, events,
                        pending_updates, pending_nudges, posts, errlog, handlers >>

\* A Document whose team has written its objective: seven words below the
\* threshold.
LongGroundTruth ==
    [i \in 1..Len(InitialGroundTruth(ChannelMembers("C1"))) |->
        IF InitialGroundTruth(ChannelMembers("C1"))[i] = Plain("objective_placeholder")
        THEN Plain("objective")
        ELSE InitialGroundTruth(ChannelMembers("C1"))[i]]

\* The process starts with that Document on disk.
InitCompaction ==
    /\ clock = 0
    /\ channels = [c \in Channels |-> {}]
    /\ file = [p \in Projects |-> IF p = "alpha" THEN FileOf(LongGroundTruth) ELSE NoFile]
    /\ msgfile = [p \in Projects |-> IF p = "alpha" THEN FileOf(InitialMessages) ELSE NoFile]
    /\ agents = [p \in Projects |-> NoAgent]
    /\ events = [p \in Projects |-> << >>]
    /\ pending_updates = << >>
    /\ pending_nudges = << >>
    /\ posts = EmptyBag
    /\ errlog = EmptyBag
    /\ handlers = EmptyBag
    /\ repo = NoGit
    /\ scratch = {}
    /\ verdict = << >>
    /\ outcome = NoOutcome
    /\ compactions = [p \in Projects |-> 0]
    /\ seen_prs = {}
    /\ poller = "sleeping"
    /\ checked = NoChecks
    /\ listed = NoListing

\* One handler at a time: proposals that are approved by reaction.
Compacting == Scope({"C1"}, MaxTs + 1, 1, {"UPDATE"}, {}, {"white_check_mark"})

NextCompaction ==
    \/ DeliverMessage(Compacting)
    \/ DeliverReaction(Compacting)
    \/ StepsTwoUpdates

\* Bolt runs every handler it has started to its end, and the team goes on
\* proposing and approving as long as it can.
SpecCompaction == InitCompaction /\ [][NextCompaction]_vars /\ WF_vars(NextCompaction)

\* ------------------------------------------- the process and its poller
\* The pull requests GitHub lists as open, and the login of their authors.
PullRequests == {1}
PrLogin(pr) == "alex"

\* pr["html_url"]
PrUrl(pr) == BuildPermalink("github", pr)

\* The repository the monitor polls is named after project alpha, whose
\* channel GITHUB_CHANNEL names.
GithubProject == "alpha"
GithubChannel == "C1"

\* A role that names a GitHub login: "Eng. github: alex".
GithubRole == "Eng github: alex"

\* parse_github_map(ground_truth)[login]: the lines of the Document that hold
\* "github: <login>".  Only a role names a login here.
GithubAuthors(ground_truth, login) ==
    {i \in 1..Len(ground_truth) :
        /\ ground_truth[i].kind = "member"
        /\ ground_truth[i].role = GithubRole
        /\ login = "alex"}

\* One iteration of poll_once's loop: an open pull request that was not seen
\* is marked seen and checked; when its author is in the Directory and the
\* oracle does not answer PASS (and the channel is found) the nudge is posted
\* and logged as a PR_NUDGE Event.
\* A loop that checks a pull request and does not remember it.
MarkSeenForgets(pr) == seen_prs' = seen_prs

\* _seen_prs.add(pr["number"])
MarkSeen(pr) == seen_prs' = seen_prs \cup {pr}

\* check_pr(pr, repo, agent) is called once more.
CheckPr(pr) == checked' = [checked EXCEPT ![pr] = @ + 1]

PollIteration(sc, pr, result) ==
        LET ag == GetAgent(agents, GithubProject)
            ground_truth == ag[GithubProject].ground_truth
            authors == GithubAuthors(ground_truth, PrLogin(pr))
        IN /\ MarkSeen(pr)
           /\ CheckPr(pr)
           /\ agents' = ag
           /\ IF authors # {} /\ result = "NUDGE"
              THEN \E t \in FreshTs(GithubChannel, sc.cap) :
                     LET author == ground_truth[CHOOSE i \in authors : TRUE]
                     IN /\ clock' = t
                        /\ channels' = [channels EXCEPT ![GithubChannel] = @ \cup {t}]
                        /\ posts' = posts (+) SetToBag({Post(GithubChannel, 0, "pr_nudge", 0)})
                        /\ events' = [events EXCEPT ![GithubProject] =
                              Append(@, EventRow(NextRowId(@), "PR_NUDGE", author.name,
                                                 "pr_alignment", << "pr_nudge" >>, PrUrl(pr)))]
              ELSE UNCHANGED << clock, channels, posts, events >>
           /\ UNCHANGED << gitvars, parsevars, compactvars, readvars, file, msgfile,
                           pending_updates, pending_nudges, errlog, handlers, poller >>

PollPr(sc) ==
    \E pr \in PullRequests \ seen_prs, result \in {"PASS", "NUDGE"} :
        PollIteration(sc, pr, result)

\* A restart that also starts from fresh files and databases.
RestartWipes ==
    /\ pending_updates' = << >>
    /\ pending_nudges' = << >>
    /\ agents' = [p \in Projects |-> NoAgent]
    /\ handlers' = EmptyBag
    /\ seen_prs' = {}
    /\ file' = [p \in Projects |-> NoFile]
    /\ msgfile' = [p \in Projects |-> NoFile]
    /\ events' = [p \in Projects |-> << >>]
    /\ poller' = "sleeping"
    /\ checked' = NoChecks
    /\ UNCHANGED << gitvars, parsevars, compactvars, readvars, clock, channels,
                    posts, errlog >>

\* The process ends and is started again: the module-level dicts and the seen
\* set are empty again, the handlers in flight are gone, the files and the
\* databases are as they were.  start_polling seeds the seen set with the pull
\* requests open at that time.
Restart ==
    /\ pending_updates' = << >>
    /\ pending_nudges' = << >>
    /\ agents' = [p \in Projects |-> NoAgent]
    /\ handlers' = EmptyBag
    /\ \E seeded \in SUBSET PullRequests : seen_prs' = seeded
    /\ poller' = "sleeping"
    /\ checked' = NoChecks
    /\ UNCHANGED << gitvars, parsevars, compactvars, readvars, clock, channels,
                    file, msgfile, events, posts, errlog >>

\* A failure that is noticed only after the message was entered in the ledger.
ClassifyFailsLogged ==
    \E h \in Running :
        /\ h.pc = "classify"
        /\ agents' = GetAgent(agents, ProjectOf(h))
        /\ events' = [events EXCEPT ![ProjectOf(h)] =
              Append(@, EventRow(NextRowId(@), "PASS", h.user, "", << >>,
                                 BuildPermalink(h.channel, h.ts)))]
        /\ Raise(h, "OracleError")
        /\ UNCHANGED << gitvars, parsevars, compactvars, pollvars, monitorvars, readvars, clock, channels, file, msgfile,
                        pending_updates, pending_nudges, posts >>

\* agent.classify raises (the oracle's API call fails): the exception leaves
\* handle_message after _get_agent and before anything is posted or logged.
ClassifyFails ==
    \E h \in Running :
        /\ h.pc = "classify"
        /\ agents' = GetAgent(agents, ProjectOf(h))
        /\ Raise(h, "OracleError")
        /\ UNCHANGED << gitvars, parsevars, compactvars, pollvars, monitorvars, readvars, clock, channels, file, msgfile,
                        events, pending_updates, pending_nudges, posts >>

\* The process starts on a project that was initialized and whose member has
\* set a role that names a GitHub login.
InitProcess ==
    /\ clock = 0
    /\ channels = [c \in Channels |-> {}]
    /\ file = [p \in Projects |->
                 IF p = GithubProject
                 THEN FileOf(SetRoleContent(InitialGroundTruth(ChannelMembers("C1")), "U1",
                                            GithubRole))
                 ELSE NoFile]
    /\ msgfile = [p \in Projects |-> IF p = GithubProject THEN FileOf(InitialMessages) ELSE NoFile]
    /\ agents = [p \in Projects |-> NoAgent]
    /\ events = [p \in Projects |-> << >>]
    /\ pending_updates = << >>
    /\ pending_nudges = << >>
    /\ posts = EmptyBag
    /\ errlog = EmptyBag
    /\ handlers = EmptyBag
    /\ repo = NoGit
    /\ scratch = {}
    /\ verdict = << >>
    /\ outcome = NoOutcome
    /\ compactions = [p \in Projects |-> 0]
    /\ seen_prs = {}
    /\ poller = "sleeping"
    /\ checked = NoChecks
    /\ listed = NoListing

\* One handler at a time beside the poller: every kind of event in the
\* channel of project alpha.
Process == Scope({"C1"}, MaxTs, 1, {"ROUTE", "UPDATE", "MISALIGN"}, {"Yes", "hello"}, ReactionInputs)

NextProcess ==
    \/ DeliverMessage(Process)
    \/ DeliverReply(Process)
    \/ DeliverReaction(Process)
    \/ DeliverMention(Process)
    \/ Steps(Process)
    \/ MentionSteps
    \/ ClassifyFails
    \/ PollPr(Process)
    \/ Restart

SpecProcess == InitProcess /\ [][NextProcess]_vars

\* ------------------------------------------------- the monitor's thread
\* The pull requests that are opened while the process runs.
OpenPullRequests == {1, 2}

\* The errors the loop may meet.
MaxPollErrors == 1

\* log.error("GitHub poll error: %s", e)
PollError(where) == [exc |-> "PollError", kind |-> "poll", pc |-> where, channel |-> "", ts |-> 0]
PollErrors ==
    BagCardinality([e \in {r \in BagToSet(errlog) : r.kind = "poll"} |-> errlog[e]])

\* An exception that is not caught ends the thread.
PollEscapes(where) ==
    /\ poller' = "dead"
    /\ errlog' = errlog

\* `except Exception as e: log.error(...)`, and the `while True` goes on with
\* the next time.sleep.
PollCaught(where) ==
    /\ poller' = "sleeping"
    /\ errlog' = errlog (+) SetToBag({PollError(where)})

\* time.sleep returns and poll_once begins: agents.get, or a new ProjectAgent.
PollStart ==
    /\ poller = "sleeping"
    /\ poller' = "polling"
    /\ agents' = GetAgent(agents, GithubProject)
    /\ UNCHANGED << gitvars, parsevars, compactvars, pollvars, readvars, checked, clock, channels,
                    file, msgfile, events, pending_updates, pending_nudges, posts, errlog,
                    handlers >>

\* One turn of the loop over the pull requests fetch_open_prs has listed.
PollCheck(sc) ==
    \E pr \in OpenPullRequests \ seen_prs, result \in {"PASS", "NUDGE"} :
        /\ poller = "polling"
        /\ PollIteration(sc, pr, result)

\* fetch_open_prs raises: nothing was checked.
PollFetchFails ==
    /\ poller = "polling"
    /\ PollErrors < MaxPollErrors
    /\ PollCaught("fetch_open_prs")
    /\ UNCHANGED << gitvars, parsevars, compactvars, pollvars, readvars, checked, clock, channels,
                    file, msgfile, agents, events, pending_updates, pending_nudges, posts,
                    handlers >>

\* check_pr raises (fetch_pr_commits or classify_pr), or chat_postMessage
\* raises: the pull request was marked seen before, nothing is posted or
\* logged for it.
PollCheckFails ==
    \E pr \in OpenPullRequests \ seen_prs, where \in {"check_pr", "chat_postMessage"} :
        /\ poller = "polling"
        /\ PollErrors < MaxPollErrors
        /\ GithubAuthors(agents[GithubProject].ground_truth, PrLogin(pr)) # {}
        /\ MarkSeen(pr)
        /\ CheckPr(pr)
        /\ PollCaught(where)
        /\ UNCHANGED << gitvars, parsevars, compactvars, readvars, clock, channels,
                        file, msgfile, agents, events, pending_updates, pending_nudges, posts,
                        handlers >>

\* log_event raises after the nudge was posted.
PollLogFails(sc) ==
    \E pr \in OpenPullRequests \ seen_prs :
    \E t \in FreshTs(GithubChannel, sc.cap) :
        /\ poller = "polling"
        /\ PollErrors < MaxPollErrors
        /\ GithubAuthors(agents[GithubProject].ground_truth, PrLogin(pr)) # {}
        /\ MarkSeen(pr)
        /\ CheckPr(pr)
        /\ clock' = t
        /\ channels' = [channels EXCEPT ![GithubChannel] = @ \cup {t}]
        /\ posts' = posts (+) SetToBag({Post(GithubChannel, 0, "pr_nudge", 0)})
        /\ PollCaught("log_event")
        /\ UNCHANGED << gitvars, parsevars, compactvars, readvars,
                        file, msgfile, agents, events, pending_updates, pending_nudges,
                        handlers >>

PollFails(sc) ==
    \/ PollFetchFails
    \/ PollCheckFails
    \/ PollLogFails(sc)

\* poll_once returns: every listed pull request was seen or checked.
PollEnd ==
    /\ poller = "polling"
    /\ poller' = "sleeping"
    /\ UNCHANGED << gitvars, parsevars, compactvars, pollvars, readvars, checked, clock, channels,
                    file, msgfile, agents, events, pending_updates, pending_nudges, posts,
                    errlog, handlers >>

\* One handler at a time beside the monitor's thread: requests for help.
Monitored == Scope({"C1"}, MaxTs, 1, {"ROUTE"}, {}, {})

HandlerSteps ==
    \/ Classify(Monitored)
    \/ Say(Monitored)
    \/ ClassifyLogMessage
    \/ LogEvent

NextMonitor ==
    \/ DeliverMessage(Monitored)
    \/ HandlerSteps
    \/ PollStart
    \/ PollCheck(Monitored)
    \/ PollFails(Monitored)
    \/ PollEnd
    \/ Restart

\* The thread of the monitor is a daemon thread that sleeps and polls for as
\* long as the process lives, and Bolt runs every handler it has started;
\* nothing makes an iteration of poll_once end.
SpecMonitor ==
    InitProcess /\ [][NextMonitor]_vars /\ WF_vars(PollStart) /\ WF_vars(HandlerSteps)

\* ------------------------------------------------- the ledgers of two projects
\* The largest limit get_events is called with.
MaxLimit == 2

\* get_events(project, limit), as the dashboard export calls it.
ListEvents ==
    \E p \in Projects, limit \in 0..MaxLimit :
        /\ listed' = [project |-> p, limit |-> limit, rows |-> GetEvents(events[p], limit)]
        /\ UNCHANGED << gitvars, parsevars, compactvars, pollvars, monitorvars, clock, channels,
                        file, msgfile, agents, events, pending_updates, pending_nudges, posts,
                        errlog, handlers >>

\* One handler at a time in the channels of two projects: requests for help
\* and proposals, which are rejected by a reaction.
Ledgers == Scope(Channels, MaxTs, 1, {"ROUTE", "UPDATE"}, {}, {"thumbsdown", "eyes"})

NextLedger ==
    \/ DeliverMessage(Ledgers)
    \/ DeliverReaction(Ledgers)
    \/ Classify(Ledgers)
    \/ Say(Ledgers)
    \/ ClassifyLogMessage
    \/ LogEvent
    \/ Put
    \/ ReactionCheckNudges
    \/ ReactionCheckUpdates
    \/ ReactionRead
    \/ ReactionDel
    \/ React
    \/ Confirm
    \/ ListEvents

SpecLedger == Init /\ [][NextLedger]_vars

\* ------------------------------------------------- initialize on any state
\* The member lists _fetch_channel_members may return: no member, one, or two
\* in either order; one member has no title.
Alex == [id |-> "U1", real_name |-> "Alex", title |-> "Eng"]
Bo == [id |-> "U2", real_name |-> "Bo", title |-> ""]
MemberLists == { << >>, << Alex >>, << Bo >>, << Alex, Bo >>, << Bo, Alex >> }

\* One handler at a time: proposals approved by reaction, and mentions.
Initializing == Scope({"C1"}, MaxTs + 1, 1, {"UPDATE"}, {}, {"white_check_mark"})

\* Slack delivers "@bot initialize" and the member lookup returns a list.
DeliverInitialize(sc) ==
    \E c \in sc.chans, u \in Users, members \in MemberLists :
    \E t \in FreshTs(c, sc.cap) :
        /\ BagCardinality(handlers) < sc.threads
        /\ clock' = t
        /\ channels' = [channels EXCEPT ![c] = @ \cup {t}]
        /\ handlers' = handlers (+) SetToBag({
               [Handler("mention", "init_write", c, u, t, 0, "", "", "")
                EXCEPT !.members = members]})
        /\ UNCHANGED << gitvars, parsevars, compactvars, pollvars, monitorvars, readvars, file, msgfile, agents, events,
                        pending_updates, pending_nudges, posts, errlog >>

NextInitialize ==
    \/ DeliverInitialize(Initializing)
    \/ DeliverMention(Initializing)
    \/ DeliverMessage(Initializing)
    \/ DeliverReaction(Initializing)
    \/ StepsTwoUpdates
    \/ MentionSteps

SpecInitialize == Init /\ [][NextInitialize]_vars

\* ------------------------------------------------- messages of one thread
\* One handler at a time: messages and replies that are no decision, every
\* one of them classified as a proposal or a warning.
Threaded == Scope({"C1"}, MaxTs + 2, 1, {"UPDATE", "MISALIGN"}, {"hello"}, {})

NextThread ==
    \/ DeliverMessage(Threaded)
    \/ DeliverReply(Threaded)
    \/ TextCheckUpdates
    \/ TextCheckNudges
    \/ Classify(Threaded)
    \/ Say(Threaded)
    \/ ClassifyLogMessage
    \/ LogEvent
    \/ Put

SpecThread == Init /\ [][NextThread]_vars

\* ------------------------------------------- _parse_category on its own
\* The verdict strings given to _parse_category: every kind, alone, with a
\* content, and with a category and a content; the content may itself hold
\* "|" and ":".
VerdictKinds == {"PASS", "ROUTE", "UPDATE", "MISALIGN", "QUESTION"}
VerdictCategories == {"decision", "escalation", "tech-debt"}
VerdictContents ==
    { << TextNames[1] >>,
      << "<@U2>", " ", "|", " ", TextNames[1] >>,
      << TextNames[1], ":", " ", TextNames[2] >> }

VerdictInputs ==
    { << k >> : k \in VerdictKinds }
    \cup { << k, ":", " " >> \o c : k \in VerdictKinds, c \in VerdictContents }
    \cup { << k, "|", cat, ":" >> \o sp \o c :
             k \in VerdictKinds, cat \in VerdictCategories,
             sp \in {<< >>, << " " >>}, c \in VerdictContents }

\* The branch of handle_message's if/elif chain a parsed verdict takes, ""
\* when it takes none.
DispatchKind(result) ==
    IF Dispatches(result)
    THEN CHOOSE k \in {"ROUTE", "UPDATE", "MISALIGN", "QUESTION"} : StartsWith(result, k)
    ELSE ""

InitParse ==
    /\ clock = 0
    /\ channels = [c \in Channels |-> {}]
    /\ file = [p \in Projects |-> NoFile]
    /\ msgfile = [p \in Projects |-> NoFile]
    /\ agents = [p \in Projects |-> NoAgent]
    /\ events = [p \in Projects |-> << >>]
    /\ pending_updates = << >>
    /\ pending_nudges = << >>
    /\ posts = EmptyBag
    /\ errlog = EmptyBag
    /\ handlers = EmptyBag
    /\ repo = NoGit
    /\ scratch = {}
    /\ verdict \in VerdictInputs
    /\ outcome = NoOutcome
    /\ compactions = [p \in Projects |-> 0]
    /\ seen_prs = {}
    /\ poller = "sleeping"
    /\ checked = NoChecks
    /\ listed = NoListing

\* result, category = _parse_category(raw_result), and the branch taken.
ParseVerdict ==
    /\ ~outcome.done
    /\ outcome' = [done |-> TRUE,
                   result |-> ParseCategory(verdict).result,
                   category |-> ParseCategory(verdict).category,
                   branch |-> DispatchKind(ParseCategory(verdict).result)]
    /\ UNCHANGED << verdict, gitvars, compactvars, pollvars, monitorvars, readvars, clock, channels, file, msgfile, agents, events,
                    pending_updates, pending_nudges, posts, errlog, handlers >>

NextParse == ParseVerdict

SpecParse == InitParse /\ [][NextParse]_vars

\* The process runs in a git repository.
InitCommit ==
    /\ clock = 0
    /\ channels = [c \in Channels |-> {}]
    /\ file = [p \in Projects |-> NoFile]
    /\ msgfile = [p \in Projects |-> NoFile]
    /\ agents = [p \in Projects |-> NoAgent]
    /\ events = [p \in Projects |-> << >>]
    /\ pending_updates = << >>
    /\ pending_nudges = << >>
    /\ posts = EmptyBag
    /\ errlog = EmptyBag
    /\ handlers = EmptyBag
    /\ repo = Repository
    /\ scratch = {}
    /\ verdict = << >>
    /\ outcome = NoOutcome
    /\ compactions = [p \in Projects |-> 0]
    /\ seen_prs = {}
    /\ poller = "sleeping"
    /\ checked = NoChecks
    /\ listed = NoListing

\* One project, one handler at a time: the project is initialized, roles are
\* set and proposals are approved by reaction, each approval committing.
Commits == Scope({"C1"}, MaxTs + 2, 1, {"UPDATE"}, {}, {"white_check_mark"})

CommitSteps ==
    \/ GitVerify
    \/ GitBranch
    \/ GitMkdtemp
    \/ GitWorktreeAdd
    \/ GitCopy
    \/ GitAdd
    \/ GitCommit
    \/ GitRemove

NextCommit ==
    \/ DeliverMessage(Commits)
    \/ DeliverReaction(Commits)
    \/ DeliverMention(Commits)
    \/ StepsTwoUpdates
    \/ MentionSteps
    \/ CommitSteps

SpecCommit == InitCommit /\ [][NextCommit]_vars


\* ================================================================ properties
\* In a step, the handler record h left the bag of handlers in flight, and the
\* record h arrived in it.
Left(h) == CopiesIn(h, handlers') < CopiesIn(h, handlers)
Arrived(h) == CopiesIn(h, handlers') > CopiesIn(h, handlers)

\* The key of the registry a decision handler targets: the thread of a reply,
\* the message a reaction was put on.
KeyOf(h) == IF h.kind = "message" THEN h.thread_ts ELSE h.ts

\* The keys of the registry a decision handler has found its key in.
PoolKeys(h) == IF h.pool = "update" THEN DOMAIN pending_updates ELSE DOMAIN pending_nudges

\* A handler that has decided and not yet removed its key.
AtRemoval(h) == h.pc \in {"text_pop", "reaction_del"}

\* A handler that has removed its key and performs the resolution effects.
Resolving(h) ==
    h.pc \in {"apply_read", "apply_write", "apply_reload", "resolve_log", "react", "confirm",
              "validate"}

\* A handler holds the pending action linked to event e of project p.
Holds(h, p, e) == h.pending.channel_name = p /\ h.pending.event_id = e

\* The decision entries of a text that carry a given update text.
EntriesOf(lines, text) == SelectSeq(lines, LAMBDA l : l.kind = "entry" /\ l.text = text)

\* ---------------------------------------------------------------------- C1
\* C1: a handler starts the resolution effects of a pending key only in a step
\* that finds the key in the registry and removes it, so of the reaction and
\* text handlers that target one key, in any interleaving, at most one
\* performs the effects.
C1_RemovalGatesResolution ==
    [][\A h \in BagToSet(handlers') :
          (h.pc = AfterRemoval(h) /\ h.decision \in {"approved", "rejected"} /\ Arrived(h))
          => /\ KeyOf(h) \in PoolKeys(h)
             /\ KeyOf(h) \notin PoolKeys(h)']_vars

\* Two handlers race for one key: one has removed it, the other has decided
\* and is about to remove it.
C1_Witness ==
    \E h1 \in Running, h2 \in Running :
        /\ Resolving(h1) /\ AtRemoval(h2)
        /\ h1.pool = h2.pool /\ KeyOf(h1) = KeyOf(h2)

\* ---------------------------------------------------------------------- C2
\* C2: a decision for a key that is no longer in the registry, the decision of
\* the loser of a race included, ends without raising an error: no decision
\* handler ever raises KeyError.
C2_NoErrorOnRemovedKey ==
    \A e \in BagToSet(errlog) : e.exc # "KeyError"

\* ---------------------------------------------------------------------- C3
\* C3: once the Event of a PendingUpdate has its disposition recorded and the
\* deciding handler has ended, no later decision, by reaction or by text,
\* takes the pending action up again, and the Event's disposition and decider
\* stay what the first decision recorded.
C3_FirstDecisionStands ==
    [][\A p \in Projects : \A e \in 1..Len(events[p]) :
          (/\ events[p][e].event_type = "UPDATE"
           /\ events[p][e].reaction # NULL
           /\ ~ \E h \in Running : Holds(h, p, e))
          => /\ events'[p][e] = events[p][e]
             /\ ~ \E h \in BagToSet(handlers') : Holds(h, p, e)]_vars

\* An update was decided, its handler has ended, and a reply with a decision
\* word in the thread of the proposal is being handled.
C3_Witness ==
    \E p \in Projects : \E e \in 1..Len(events[p]) :
        /\ events[p][e].event_type = "UPDATE"
        /\ events[p][e].reaction # NULL
        /\ ~ \E h \in Running : Holds(h, p, e)
        /\ \E h \in Running, q \in BagToSet(posts) :
              /\ q.text = "proposal" /\ q.thread_ts = events[p][e].permalink.p
              /\ ChannelName(q.channel) = p
              /\ h.kind = "message" /\ h.pc = "text_updates" /\ h.thread_ts = q.ts
              /\ StripLower(h.body) \in APPROVE_WORDS \cup REJECT_WORDS


\* ---------------------------------------------------------------------- C4
\* The pending update of event e of project p is in the registry.
Registered(p, e) ==
    \E k \in DOMAIN pending_updates :
        pending_updates[k].channel_name = p /\ pending_updates[k].event_id = e

\* A handler is at work on event e of project p: handle_message between the
\* insertion of the row and the registration, or a decision handler that
\* holds the pending action.
InFlight(p, e) ==
    \E h \in Running :
        \/ Holds(h, p, e)
        \/ h.kind = "message" /\ h.pc = "put" /\ ProjectOf(h) = p /\ h.event_id = e

\* C4: the text of a proposed change is in the Document at most once, it is
\* there only after a positive decision, and once the pending update has been
\* removed by a positive decision and the deciding handler has ended, however
\* it ended, it is there exactly once.
C4_AppliedExactlyOnce ==
    \A p \in Projects : \A e \in 1..Len(events[p]) :
        LET row == events[p][e]
            n == Len(EntriesOf(file[p].lines, row.content))
        IN row.event_type = "UPDATE" =>
             /\ n <= 1
             /\ n = 1 => \/ row.reaction = "approved"
                         \/ \E h \in Running : Holds(h, p, e) /\ h.decision = "approved"
             /\ (~Registered(p, e) /\ ~InFlight(p, e) /\ row.reaction # "rejected") => n = 1

\* ---------------------------------------------------------------------- C5
\* A handler whose call of apply_update has returned.
Returned(h) ==
    h.pool = "update" /\ h.decision = "approved" /\ h.pc \in {"resolve_log", "react", "confirm"}

\* The entry of a handler's update is a line of a text.
HasEntryOf(lines, h) ==
    \E i \in 1..Len(lines) : lines[i] = EntryLine(h.pending.update_text, h.user)

\* C5: when the apply_update calls of two handlers on one project have both
\* returned, the persisted Document and the cached Document hold the entries
\* of both.
C5_NoLostUpdate ==
    \A h1 \in Running, h2 \in Running :
        (/\ Returned(h1) /\ Returned(h2)
         /\ h1.pending.channel_name = h2.pending.channel_name)
        => LET p == h1.pending.channel_name
           IN /\ HasEntryOf(file[p].lines, h1) /\ HasEntryOf(file[p].lines, h2)
              /\ HasEntryOf(agents[p].ground_truth, h1)
              /\ HasEntryOf(agents[p].ground_truth, h2)

\* ---------------------------------------------------------------------- C6
\* A pending update of the channel was proposed, before the reply, in the
\* thread the reply is in.
PendingInThread(h) ==
    \E k \in DOMAIN pending_updates :
        /\ pending_updates[k].channel_id = h.channel
        /\ pending_updates[k].thread_ts = h.thread_ts
        /\ k < h.ts

\* C6: when a reply whose body is an approve or reject word is in the thread
\* of a message for which an update is pending, the text check finds the
\* pending update and goes on to resolve it.
C6_ReplyInThreadResolves ==
    [][\A h \in Running :
          (/\ h.kind = "message" /\ h.pc = "text_updates"
           /\ StripLower(h.body) \in APPROVE_WORDS \cup REJECT_WORDS
           /\ PendingInThread(h)
           /\ Left(h))
          => \E h2 \in BagToSet(handlers') :
                h2.pc = "text_pop" /\ h2.pool = "update" /\ h2.ts = h.ts /\ Arrived(h2)]_vars

\* ---------------------------------------------------------------------- C7
\* C7: a decision delivered in the channel of one project only ever takes up a
\* pending action of that project.
C7_DecisionStaysInProject ==
    \A h \in Running :
        h.pending.channel_name # "" => h.pending.channel_name = ProjectOf(h)


\* ---------------------------------------------------------------------- C8
\* The Document of a project, persisted or cached, holds an entry with a text.
InDocument(p, text) ==
    \/ EntriesOf(file[p].lines, text) # << >>
    \/ EntriesOf(agents[p].ground_truth, text) # << >>

\* The step in which handle_message registers the pending update of an UPDATE
\* verdict: the registry gains exactly the entry under the id of the posted
\* proposal, with the parsed category, the author and the id of the event row
\* of this proposal; nothing else of the registry and nothing of the Document
\* changes.
C8_PutStep ==
    \A h \in Running :
        (h.pc = "put" /\ StartsWith(h.result, "UPDATE") /\ Left(h))
        => LET k == h.resp_ts
               row == events[ProjectOf(h)][h.event_id]
           IN /\ \E q \in BagToSet(posts) :
                    /\ q.text = "proposal" /\ q.ts = k
                    /\ q.channel = h.channel /\ q.thread_ts = h.ts
              /\ DOMAIN pending_updates' = DOMAIN pending_updates \cup {k}
              /\ \A j \in DOMAIN pending_updates \ {k} :
                    pending_updates'[j] = pending_updates[j]
              /\ \E v \in Verdicts(h.ts) :
                    v[1] = "UPDATE" /\ pending_updates'[k].category = v[3]
              /\ pending_updates'[k].user = h.user
              /\ pending_updates'[k].event_id = h.event_id
              /\ pending_updates'[k].update_text = row.content
              /\ row.event_type = "UPDATE" /\ row.reaction = NULL
              /\ UNCHANGED << pending_nudges, file, agents >>

\* The text of an update that is in the registry is not in the Document.
C8_PendingNotApplied ==
    \A k \in DOMAIN pending_updates :
        ~InDocument(pending_updates[k].channel_name, pending_updates[k].update_text)

\* C8: an UPDATE verdict creates exactly one PendingUpdate, keyed by the id of
\* the posted proposal and carrying the proposed category, the author and the
\* id of the logged Event; the Document stays unchanged while the update is
\* pending.
C8_UpdateCreatesPending ==
    []C8_PendingNotApplied /\ [][C8_PutStep]_vars

\* An update is pending under the id of its proposal and its text is not in
\* the Document, which exists.
C8_Witness ==
    \E k \in DOMAIN pending_updates, q \in BagToSet(posts) :
        /\ q.text = "proposal" /\ q.ts = k
        /\ pending_updates[k].category = "decision"
        /\ pending_updates[k].event_id >= 1
        /\ file[pending_updates[k].channel_name].exists

\* ---------------------------------------------------------------------- C9
\* The steps of a handler that resolves a pending update negatively: the
\* Document, persisted and cached, is unchanged; the removal leaves the key
\* out of the registry; update_reaction marks the linked Event rejected by the
\* deciding user and writes no other row.
C9_RejectStep ==
    \A h \in Running :
        (h.pool = "update" /\ h.decision = "rejected" /\ Left(h))
        => LET p == h.pending.channel_name
               e == h.pending.event_id
           IN /\ file' = file
              /\ \A q \in Projects : agents'[q].ground_truth = agents[q].ground_truth
              /\ AtRemoval(h) => KeyOf(h) \notin DOMAIN pending_updates'
              /\ h.pc = "react" =>
                    /\ events'[p][e].reaction = "rejected"
                    /\ events'[p][e].reacted_by = h.user
                    /\ \A q \in Projects : \A i \in 1..Len(events[q]) :
                          (q # p \/ i # e) => events'[q][i] = events[q][i]

\* The text of a rejected update is not in the Document, unless a handler
\* that holds the same pending update with a positive decision is at work.
C9_DiscardedNotApplied ==
    \A p \in Projects : \A e \in 1..Len(events[p]) :
        (/\ events[p][e].event_type = "UPDATE"
         /\ events[p][e].reaction = "rejected"
         /\ ~ \E h \in Running : Holds(h, p, e) /\ h.decision = "approved")
        => ~InDocument(p, events[p][e].content)

\* C9: a negative decision on a PendingUpdate leaves the Document unchanged,
\* marks the linked Event rejected, removes the key, and the discarded text is
\* not applied by any later event.
C9_RejectLeavesDocument ==
    []C9_DiscardedNotApplied /\ [][C9_RejectStep]_vars

\* An update was rejected and its handler has ended, the key is gone, and the
\* Document exists.
C9_Witness ==
    \E p \in Projects : \E e \in 1..Len(events[p]) :
        /\ events[p][e].event_type = "UPDATE"
        /\ events[p][e].reaction = "rejected"
        /\ events[p][e].reacted_by \in Deciders
        /\ ~Registered(p, e) /\ ~InFlight(p, e)
        /\ file[p].exists

\* --------------------------------------------------------------------- C10
\* The steps of a handler that resolves a pending nudge, by reaction or by
\* reply, positively or negatively: the Document, the message log and the
\* pending updates are unchanged; the removal leaves the key out of the
\* registry and the ledger alone; update_reaction writes the disposition of
\* the linked Event and nothing else.
C10_NudgeStep ==
    \A h \in Running :
        (h.pool = "nudge" /\ h.decision \in {"approved", "rejected"} /\ Left(h))
        => LET p == h.pending.channel_name
               e == h.pending.event_id
           IN /\ UNCHANGED << file, msgfile, agents, pending_updates >>
              /\ AtRemoval(h) => (KeyOf(h) \notin DOMAIN pending_nudges' /\ events' = events)
              /\ h.pc = "react" =>
                    /\ events'[p][e] = [events[p][e] EXCEPT !.reaction = h.decision,
                                                            !.reacted_by = ""]
                    /\ \A q \in Projects : \A i \in 1..Len(events[q]) :
                          (q # p \/ i # e) => events'[q][i] = events[q][i]
                    /\ UNCHANGED pending_nudges
              /\ h.pc = "confirm" => UNCHANGED << events, pending_nudges >>

\* C10: resolving a PendingNudge in either direction, by either channel,
\* records only the disposition of the linked Event and removes the key; the
\* Document and the message log are unchanged.
C10_NudgeRecordsOnlyDisposition ==
    [][C10_NudgeStep]_vars

\* A nudge was resolved while the ledger holds another event and the message
\* log holds the line of the nudged message: the handler has recorded the
\* disposition and is about to confirm.
C10_Witness ==
    \E h \in Running :
        /\ h.pool = "nudge" /\ h.pc = "confirm"
        /\ msgfile[h.pending.channel_name].lines # << >>
        /\ events[h.pending.channel_name][h.pending.event_id].reaction = h.decision
        /\ Len(events[h.pending.channel_name]) >= 2


\* --------------------------------------------------------------------- C11
\* C11: every handler that has resolved a pending update positively, by
\* reaction or by reply, goes on from its confirmation to validate the
\* Directory against the members of the channel; and a validation that finds
\* missing members posts the warning that lists them, unless the lookup of
\* the members failed.
C11_ValidatedAfterApproval ==
    [][\A h \in Running :
          /\ (h.pool = "update" /\ h.decision = "approved" /\ h.pc = "confirm" /\ Left(h))
             => \E h2 \in BagToSet(handlers') :
                   h2.pc = "validate" /\ h2.kind = h.kind /\ h2.ts = h.ts /\ Arrived(h2)
          /\ (h.pc = "validate" /\ Left(h))
             => LET missing == ValidateDirectory(
                                   agents[h.pending.channel_name].ground_truth,
                                   MemberIds(h.channel))
                IN \/ posts' = posts
                   \/ /\ missing # << >>
                      /\ \E q \in BagToSet(posts') :
                            /\ q.text = "directory_warning" /\ q.missing = missing
                            /\ CopiesIn(q, posts') > CopiesIn(q, posts)]_vars

\* C12: read after write.  At the step in which initialize, a successful
\* set_role or apply_update has reloaded the cache and goes on to return, the
\* cached Document of the project equals the persisted one, and after
\* apply_update it contains the entry of the update that was applied.
C12_ReadAfterWrite ==
    [][\A h \in Running :
          (h.pc \in {"init_reload", "role_reload", "apply_reload"} /\ Left(h))
          => LET p == IF h.pc = "apply_reload" THEN h.pending.channel_name ELSE ProjectOf(h)
             IN /\ agents'[p].ground_truth = LoadFile(file'[p])
                /\ h.pc = "apply_reload" => HasEntryOf(agents'[p].ground_truth, h)]_vars

\* The step in which a handler's apply_update has written ground_truth.txt.
Applied(h) ==
    /\ h.pc = "apply_write"
    /\ Left(h)
    /\ \E h2 \in BagToSet(handlers') : h2.pc = "apply_reload" /\ h2.ts = h.ts /\ Arrived(h2)

\* C13: an apply_update on a Document that holds the placeholder of the
\* decision log puts the new entry in the placeholder's place and leaves
\* every other line as it was; an apply_update on a Document without the
\* placeholder puts the new entry last, after all existing entries, which
\* stay unchanged and in order, as do all lines before them.
C13_FirstReplacesLaterAppend ==
    [][\A h \in Running :
          Applied(h)
          => LET p == h.pending.channel_name
                 old == IF file[p].exists THEN file[p].lines ELSE << >>
                 new == file'[p].lines
                 entry == EntryLine(h.pending.update_text, h.user)
                 kept == RStripLines(old)
             IN /\ file'[p].exists
                /\ IF \E i \in 1..Len(old) : old[i] = Placeholder
                   THEN /\ Len(new) = Len(old)
                        /\ \A i \in 1..Len(old) :
                              new[i] = IF old[i] = Placeholder THEN entry ELSE old[i]
                        /\ Entries(new) = Entries(old) \o << entry >>
                   ELSE /\ new # << >>
                        /\ new[Len(new)] = entry
                        /\ Entries(new) = Entries(old) \o << entry >>
                        /\ Len(new) > Len(kept)
                        /\ SubSeq(new, 1, Len(kept)) = kept]_vars

\* A freshly initialized Document has received two entries: the first is in
\* the placeholder's place, the second is after it.
C13_Witness ==
    LET lines == file["alpha"].lines
        fresh == InitialGroundTruth(ChannelMembers("C1"))
    IN /\ file["alpha"].exists
       /\ Len(lines) = Len(fresh) + 1
       /\ SubSeq(lines, 1, Len(fresh) - 1) = SubSeq(fresh, 1, Len(fresh) - 1)
       /\ lines[Len(fresh)].kind = "entry"
       /\ lines[Len(fresh) + 1].kind = "entry"
       /\ lines[Len(fresh)] # lines[Len(fresh) + 1]

\* A handler is inside _git_commit.
Committing(h) == h.pc \in GitPcs

\* C14: the commit to the version ledger never fails the mutation.  No
\* exception leaves _git_commit, whichever of its steps fails, and no step of
\* the commit changes the persisted or the cached Document.
C14_CommitNeverFails ==
    /\ [](\A e \in BagToSet(errlog) : e.pc \notin GitPcs)
    /\ [][\A h \in Running : (Committing(h) /\ Left(h)) => (file' = file /\ agents' = agents)]_vars

\* C15: no scratch working copy outlives the commit.  Every directory that
\* _git_commit created belongs to a handler that is still inside the commit.
C15_NoScratchLeft ==
    \A d \in scratch : \E h \in Running : Committing(h) /\ h.worktree_dir = d

\* A handler of handle_message that is past the classification.
Dispatched(h) == h.pc \in {"say", "log_message", "log_event", "put"}

\* The step in which a handler ends: it leaves and nothing takes its place.
Ends(h) ==
    /\ Left(h)
    /\ \A h2 \in BagToSet(handlers') : Arrived(h2) => h2.ts # h.ts \/ h2.kind # h.kind

\* C16: a PASS verdict has no effect.  Only a verdict of one of the four
\* acting kinds takes a handler past the classification, and the step in
\* which a handler ends at the classification posts nothing, logs no Event
\* and no message, registers nothing and leaves the Document unchanged.
C16_PassDoesNothing ==
    /\ [](\A h \in Running : Dispatched(h) => h.result[1] \in {"ROUTE", "UPDATE", "MISALIGN", "QUESTION"})
    /\ [][\A h \in Running :
            (h.pc = "classify" /\ Ends(h))
            => UNCHANGED << posts, events, msgfile, pending_updates, pending_nudges, file, errlog >>]_vars

\* A message was delivered and handled to the end, and nothing was posted,
\* logged or registered.
C16_Witness ==
    /\ channels["C1"] # {}
    /\ handlers = EmptyBag
    /\ posts = EmptyBag /\ errlog = EmptyBag
    /\ \A p \in Projects : events[p] = << >> /\ ~msgfile[p].exists /\ ~file[p].exists
    /\ pending_updates = << >> /\ pending_nudges = << >>
    /\ agents["alpha"] # NoAgent

\* A step of handler h that takes it to position pc.
GoesTo(h, pc) ==
    /\ Left(h)
    /\ \E h2 \in BagToSet(handlers') :
          h2.pc = pc /\ h2.kind = h.kind /\ h2.ts = h.ts /\ Arrived(h2)

\* The post of a ROUTE handler: the nudge in the thread of the message, with
\* the user the verdict names as the one mentioned.
RouteNudge(h) ==
    CHOOSE q \in { [target |-> << v[6] >>] @@ Post(h.channel, h.ts, "route", 0) :
                     v \in {w \in Verdicts(h.ts) : w[1] = "ROUTE"} } : TRUE

C17_RouteStep ==
    \A h \in Running :
        (Dispatched(h) /\ StartsWith(h.result, "ROUTE") /\ Left(h))
        => LET p == ProjectOf(h)
               old == IF msgfile[p].exists THEN msgfile[p].lines ELSE << >>
           IN /\ UNCHANGED << pending_updates, pending_nudges, file, errlog >>
              /\ h.pc \in {"say", "log_message", "log_event"}
              /\ h.pc = "say" =>
                    /\ posts' = posts (+) SetToBag({RouteNudge(h)})
                    /\ GoesTo(h, "log_message")
                    /\ UNCHANGED << msgfile, events >>
              /\ h.pc = "log_message" =>
                    /\ Len(msgfile'[p].lines) = Len(old) + 1
                    /\ SubSeq(msgfile'[p].lines, 1, Len(old)) = old
                    /\ msgfile'[p].lines[Len(old) + 1].user = h.user
                    /\ msgfile'[p].lines[Len(old) + 1].category = "escalation"
                    /\ GoesTo(h, "log_event")
                    /\ UNCHANGED << posts, events >>
              /\ h.pc = "log_event" =>
                    /\ Len(events'[p]) = Len(events[p]) + 1
                    /\ SubSeq(events'[p], 1, Len(events[p])) = events[p]
                    /\ events'[p][Len(events[p]) + 1].event_type = "ROUTE"
                    /\ events'[p][Len(events[p]) + 1].user = h.user
                    /\ Ends(h)
                    /\ UNCHANGED << posts, msgfile >>

\* C17: a ROUTE verdict posts one nudge that mentions the target, appends
\* exactly one line to the message log, logs exactly one ROUTE Event, in that
\* order, and ends; it registers nothing in either pool and leaves the
\* Document unchanged.
C17_RouteEffects == [][C17_RouteStep]_vars

\* A ROUTE verdict has been handled to the end: its nudge, its line in the
\* message log and its Event exist and both pools are empty.
C17_Witness ==
    /\ handlers = EmptyBag
    /\ \E q \in BagToSet(posts) : q.text = "route" /\ q.target = << "<@U2>" >>
    /\ \E i \in 1..Len(events["alpha"]) : events["alpha"][i].event_type = "ROUTE"
    /\ \E i \in 1..Len(msgfile["alpha"].lines) : msgfile["alpha"].lines[i].category = "escalation"
    /\ pending_updates = << >> /\ pending_nudges = << >>

\* A handler of a MISALIGN or QUESTION verdict.
Nudging(h) == StartsWith(h.result, "MISALIGN") \/ StartsWith(h.result, "QUESTION")

C18_NudgeVerdictStep ==
    \A h \in Running :
        (Dispatched(h) /\ Nudging(h) /\ Left(h))
        => LET p == ProjectOf(h)
               k == h.resp_ts
           IN /\ UNCHANGED << pending_updates, file, errlog >>
              /\ h.pc = "say" => GoesTo(h, "log_message") /\ UNCHANGED << events, pending_nudges >>
              /\ h.pc = "log_message" => GoesTo(h, "log_event") /\ UNCHANGED << events, pending_nudges >>
              /\ h.pc = "log_event" =>
                    /\ Len(events'[p]) = Len(events[p]) + 1
                    /\ SubSeq(events'[p], 1, Len(events[p])) = events[p]
                    /\ events'[p][Len(events[p]) + 1].event_type = h.result[1]
                    /\ events'[p][Len(events[p]) + 1].reaction = NULL
                    /\ \E h2 \in BagToSet(handlers') :
                          h2.pc = "put" /\ h2.ts = h.ts /\ Arrived(h2)
                                        /\ h2.event_id = Len(events[p]) + 1
                    /\ UNCHANGED pending_nudges
              /\ h.pc = "put" =>
                    /\ \E q \in BagToSet(posts) :
                          /\ q.text = "warning" /\ q.ts = k
                          /\ q.channel = h.channel /\ q.thread_ts = h.ts
                    /\ k \notin DOMAIN pending_nudges
                    /\ DOMAIN pending_nudges' = DOMAIN pending_nudges \cup {k}
                    /\ \A j \in DOMAIN pending_nudges : pending_nudges'[j] = pending_nudges[j]
                    /\ pending_nudges'[k].user = h.user
                    /\ pending_nudges'[k].event_id = h.event_id
                    /\ events[p][h.event_id].event_type = h.result[1]
                    /\ events[p][h.event_id].user = h.user
                    /\ pending_nudges'[k].nudge_text = events[p][h.event_id].content
                    /\ pending_nudges'[k].nudge_text = << TextNames[h.ts] >>
                    /\ Ends(h)
                    /\ UNCHANGED events

\* C18: a MISALIGN or QUESTION verdict logs exactly one Event of the
\* verdict's kind and then registers exactly one PendingNudge, under the id
\* of the posted warning, that holds the content, the author and the id of
\* that Event; it registers no PendingUpdate and leaves the Document
\* unchanged.
C18_NudgeVerdictEffects == [][C18_NudgeVerdictStep]_vars

\* A nudge is pending under the id of its warning and is linked to an open
\* Event of kind MISALIGN or QUESTION.
C18_Witness ==
    /\ handlers = EmptyBag
    /\ pending_updates = << >>
    /\ \E k \in DOMAIN pending_nudges :
          /\ \E q \in BagToSet(posts) : q.text = "warning" /\ q.ts = k
          /\ pending_nudges[k].event_id \in 1..Len(events["alpha"])
          /\ events["alpha"][pending_nudges[k].event_id].event_type \in {"MISALIGN", "QUESTION"}
          /\ events["alpha"][pending_nudges[k].event_id].content = pending_nudges[k].nudge_text

\* The decision a handler carries is recognized: a reaction of the approve or
\* reject set, or a body that is, trimmed and in lower case, an approve or
\* reject word.
Recognized(h) ==
    IF h.kind = "message"
    THEN StripLower(h.body) \in APPROVE_WORDS \cup REJECT_WORDS
    ELSE h.reaction \in APPROVE_REACTIONS \cup REJECT_REACTIONS

\* Only recognized decisions reach the removal of a key and what follows it.
C19_OnlyRecognizedResolve ==
    \A h \in Running : (AtRemoval(h) \/ Resolving(h)) => Recognized(h)

\* A step of a handler whose decision is not recognized, taken while it looks
\* for a pending action, changes neither registry, no Event and no Document.
C19_IgnoredStep ==
    \A h \in Running :
        (/\ h.pc \in {"text_updates", "text_nudges", "reaction_nudges", "reaction_updates",
                      "reaction_read"}
         /\ ~Recognized(h)
         /\ Left(h))
        => /\ UNCHANGED << pending_updates, pending_nudges, events, file, agents >>
           /\ h.pc = "reaction_read" => Ends(h)
           /\ h.pc = "text_nudges" => GoesTo(h, "classify")

\* A pending action of the project was proposed in the thread a reply is in.
PendingActionInThread(h) ==
    \/ PendingInThread(h)
    \/ \E k \in DOMAIN pending_nudges :
          /\ pending_nudges[k].channel_name = ProjectOf(h)
          /\ pending_nudges[k].thread_ts = h.thread_ts
          /\ k < h.ts

\* A reply with a recognized word in the thread of a pending action does not
\* leave the text check for the classification.
C19_WordResolvesStep ==
    \A h \in Running :
        (/\ h.kind = "message" /\ h.pc = "text_nudges"
         /\ Recognized(h)
         /\ PendingActionInThread(h)
         /\ Left(h))
        => GoesTo(h, "text_pop")

\* C19: a reaction outside the approve and reject sets and a reply whose body
\* is not an approve or reject word resolve nothing: the registries, the
\* Events and the Document stay as they are; a reply in the thread of a
\* pending action whose body is an approve or reject word in any letter case
\* resolves it.
C19_UnrecognizedIgnored ==
    /\ []C19_OnlyRecognizedResolve
    /\ [][C19_IgnoredStep /\ C19_WordResolvesStep]_vars

\* The position of the first token tok of s after position from, 0 when
\* there is none.
FirstAfter(s, tok, from) ==
    IF \E i \in (from + 1)..Len(s) : s[i] = tok
    THEN CHOOSE i \in (from + 1)..Len(s) :
            s[i] = tok /\ \A j \in (from + 1)..(i - 1) : s[j] # tok
    ELSE 0

\* A verdict of the shape KIND|category: content.
HasCategoryShape(s) ==
    /\ Len(s) >= 2 /\ s[1] \in VerdictKinds /\ s[2] = "|"
    /\ FirstAfter(s, ":", 2) # 0

\* C20: a verdict of the shape KIND|category: content is parsed into the
\* kind before the first "|", the category between it and the first ":"
\* after it, and the content after that ":", and the dispatcher takes the
\* branch of that kind; a verdict without "|" gets the category "general"
\* and is returned unchanged.
C20_VerdictParsing ==
    outcome.done =>
        LET colon == FirstAfter(verdict, ":", 2)
        IN /\ HasCategoryShape(verdict) =>
                /\ << outcome.category >> = SubSeq(verdict, 3, colon - 1)
                /\ outcome.result = << verdict[1], ":", " " >>
                                      \o LStripTokens(SubSeq(verdict, colon + 1, Len(verdict)))
                /\ outcome.branch = IF verdict[1] = "PASS" THEN "" ELSE verdict[1]
           /\ FirstAfter(verdict, "|", 0) = 0 =>
                /\ outcome.category = "general"
                /\ outcome.result = verdict

\* The ids of the member lines of a Document's Directory section, in order,
\* each once.
RECURSIVE DirectoryIds(_, _)
DirectoryIds(lines, seen) ==
    IF lines = << >> THEN << >>
    ELSE IF Head(lines).kind = "member" /\ Head(lines).uid \notin seen
    THEN << Head(lines).uid >> \o DirectoryIds(Tail(lines), seen \cup {Head(lines).uid})
    ELSE DirectoryIds(Tail(lines), seen)

\* C21: for every cached Document, validate_directory against the members
\* of the project's channel returns exactly the ids of the Directory section
\* that are not members, in Directory order and each once.
C21_ValidateDirectoryExact ==
    \A c \in Channels :
        LET ground_truth == agents[ChannelName(c)].ground_truth
        IN ValidateDirectory(ground_truth, MemberIds(c))
           = SelectSeq(DirectoryIds(ground_truth, {}), LAMBDA uid : uid \notin MemberIds(c))

\* The Directory of a project's persisted Document names a user.
InDirectory(p, user_id) ==
    /\ file[p].exists
    /\ \E i \in 1..Len(file[p].lines) :
          file[p].lines[i].kind = "member" /\ file[p].lines[i].uid = user_id

C22_NotFoundStep ==
    \A h \in Running :
        LET p == ProjectOf(h)
        IN /\ (h.pc = "role_read" /\ ~InDirectory(p, h.user) /\ Left(h))
              => /\ \E h2 \in BagToSet(handlers') :
                       /\ h2.pc = "mention_say" /\ h2.ts = h.ts /\ Arrived(h2)
                       /\ h2.decision = IF file[p].exists THEN "not_found" ELSE "no_file"
                 /\ file' = file
                 /\ agents' = GetAgent(agents, p)
                 /\ errlog' = errlog
           /\ (h.pc = "mention_say" /\ h.decision \in {"not_found", "no_file"} /\ Left(h))
              => /\ posts' = posts (+) SetToBag({Post(h.channel, h.ts, h.decision, 0)})
                 /\ Ends(h)
                 /\ UNCHANGED << file, agents, errlog >>

C23_RoleWriteStep ==
    \A h \in Running :
        (h.pc = "role_write" /\ Left(h))
        => LET p == ProjectOf(h)
               old == file[p].lines
               new == file'[p].lines
               named == {i \in 1..Len(old) : old[i].kind = "member" /\ old[i].uid = h.user}
           IN /\ Cardinality(named) = 1
              /\ file'[p].exists
              /\ Len(new) = Len(old)
              /\ \A i \in named :
                    /\ new[i].kind = "member"
                    /\ new[i].name = old[i].name /\ new[i].uid = old[i].uid
                    /\ new[i].role = h.role
              /\ \A j \in (1..Len(old)) \ named : new[j] = old[j]
              /\ GoesTo(h, "role_reload")

\* C23: set_role for a user the Directory names puts the new role in the
\* place of the role on that member's line, keeps the name and the id on it,
\* and leaves every other line of the Document as it was.
C23_SetRoleReplacesRole == [][C23_RoleWriteStep]_vars

\* A Document with a decision entry in which a member's role was changed.
C23_Witness ==
    /\ file["alpha"].exists
    /\ \E i \in 1..Len(file["alpha"].lines) :
          file["alpha"].lines[i] = MemberLine("Alex", "U1", "Backend")
    /\ Entries(file["alpha"].lines) # << >>
    /\ \E q \in BagToSet(posts) : q.text = "role_updated"

\* The ids of the rows of every project's ledger increase strictly in the
\* order of insertion.
C24_IdsIncrease ==
    \A p \in Projects : \A i, j \in 1..Len(events[p]) :
        i < j => events[p][i].id < events[p][j].id

C24_AppendStep ==
    \A h \in Running :
        (h.pc = "log_event" /\ Left(h))
        => LET p == ProjectOf(h)
               n == Len(events[p])
               row == events'[p][n + 1]
           IN /\ Len(events'[p]) = n + 1
              /\ SubSeq(events'[p], 1, n) = events[p]
              /\ \A q \in Projects \ {p} : events'[q] = events[q]
              /\ \A i \in 1..n : events[p][i].id < row.id
              /\ row.event_type = h.result[1]
              /\ row.user = h.user
              /\ row.category = h.category
              /\ row.content = ContentOf(h.result)
              /\ row.permalink = BuildPermalink(h.channel, h.ts)
              /\ row.reaction = NULL /\ row.reacted_by = NULL
              /\ \A h2 \in BagToSet(handlers') :
                    (Arrived(h2) /\ h2.ts = h.ts /\ h2.kind = h.kind) => h2.event_id = row.id

\* C24: every log_event adds exactly one row to the ledger of its project,
\* with the kind, author, category, content and permalink it was given and
\* no disposition and no decider; the row's id is larger than every id of
\* the ledger and is the value returned to the caller.
C24_LedgerAppend == []C24_IdsIncrease /\ [][C24_AppendStep]_vars

\* The ledger of a project holds two rows and a pending action is linked to
\* the second.
C24_Witness ==
    /\ Len(events["alpha"]) >= 2
    /\ events["alpha"][2].id = 2
    /\ \/ \E k \in DOMAIN pending_updates : pending_updates[k].event_id = 2
       \/ \E k \in DOMAIN pending_nudges : pending_nudges[k].event_id = 2

\* Two rows agree in every field but the disposition and the decider.
SameButDisposition(r1, r2) ==
    /\ r1.id = r2.id /\ r1.event_type = r2.event_type /\ r1.user = r2.user
    /\ r1.category = r2.category /\ r1.content = r2.content /\ r1.permalink = r2.permalink

\* update_reaction, applied to every reachable ledger with every id from 0
\* to one past the last: only the row with the id changes, and only in its
\* disposition and decider; an id without a row changes nothing; a second
\* call with the same arguments changes nothing.
C25_FrameOfUpdate ==
    \A p \in Projects : \A event_id \in 0..(Len(events[p]) + 1) :
    \A reaction \in {"approved", "rejected"}, reacted_by \in Deciders \cup {""} :
        LET rows == events[p]
            after == UpdateReaction(rows, event_id, reaction, reacted_by)
        IN /\ Len(after) = Len(rows)
           /\ \A i \in 1..Len(rows) :
                 /\ SameButDisposition(after[i], rows[i])
                 /\ rows[i].id # event_id => after[i] = rows[i]
                 /\ rows[i].id = event_id =>
                       (after[i].reaction = reaction /\ after[i].reacted_by = reacted_by)
           /\ (\A i \in 1..Len(rows) : rows[i].id # event_id) => after = rows
           /\ UpdateReaction(after, event_id, reaction, reacted_by) = after

C25_ReactStep ==
    \A h \in Running :
        (h.pc = "react" /\ Left(h))
        => LET p == h.pending.channel_name
           IN /\ Len(events'[p]) = Len(events[p])
              /\ \A q \in Projects \ {p} : events'[q] = events[q]
              /\ \A i \in 1..Len(events[p]) :
                    /\ SameButDisposition(events'[p][i], events[p][i])
                    /\ events[p][i].id # h.pending.event_id => events'[p][i] = events[p][i]
                    /\ events[p][i].id = h.pending.event_id =>
                          events'[p][i].reaction = h.decision

\* C25: update_reaction writes only the disposition and the decider of the
\* one row with the given id in the given project; every other field and
\* every other row stay; an id that matches no row changes nothing and a
\* repeated call leaves the ledger as the first call left it.
C25_UpdateReactionFrame == []C25_FrameOfUpdate /\ [][C25_ReactStep]_vars

\* A ledger with a decided row and an open row.
C25_Witness ==
    \E i, j \in 1..Len(events["alpha"]) :
        /\ events["alpha"][i].reaction \in {"approved", "rejected"}
        /\ events["alpha"][j].reaction = NULL

\* C26: whenever apply_update has answered that the Document of a project is
\* above the word threshold, a compaction of that project's Document follows.
C26_CompactionFollows ==
    \A p \in Projects :
        (\E h \in Running : h.needs_compaction /\ h.pending.channel_name = p)
        ~> (compactions[p] > 0)

\* The key a handler removes at its removal step: the thread id of a reply,
\* the id of the message a reaction was given to.
RemovalKey(h) == IF h.kind = "message" THEN h.thread_ts ELSE h.ts

\* This step is the removal step of a handler that carries a recognized
\* decision for the key of a pool.
DecisionRemoves(pool, key) ==
    \E h \in Running :
        /\ h.pc \in {"text_pop", "reaction_del"}
        /\ Left(h)
        /\ h.pool = pool
        /\ RemovalKey(h) = key
        /\ Recognized(h)

\* A key leaves a registry, or its entry changes, only at a restart or in the
\* removal step of a recognized decision for that key.
C27_KeptStep ==
    /\ \A k \in DOMAIN pending_updates :
          (k \notin DOMAIN pending_updates' \/ pending_updates'[k] # pending_updates[k])
          => (Restart \/ DecisionRemoves("update", k))
    /\ \A k \in DOMAIN pending_nudges :
          (k \notin DOMAIN pending_nudges' \/ pending_nudges'[k] # pending_nudges[k])
          => (Restart \/ DecisionRemoves("nudge", k))

\* A restart empties both registries and keeps the Document, the message log
\* and the Events of every project.
C27_RestartStep ==
    Restart => /\ pending_updates' = << >>
               /\ pending_nudges' = << >>
               /\ UNCHANGED << file, msgfile, events >>

C28_RowsKeptStep ==
    \A p \in Projects :
        /\ Len(events'[p]) >= Len(events[p])
        /\ \A i \in 1..Len(events[p]) : SameButDisposition(events[p][i], events'[p][i])

\* A disposition changes only from NULL, in the update_reaction step of a
\* handler that carries a recognized decision and holds the pending action
\* linked to the row.
C28_DispositionStep ==
    \A p \in Projects : \A i \in 1..Len(events[p]) :
        (\/ events'[p][i].reaction # events[p][i].reaction
         \/ events'[p][i].reacted_by # events[p][i].reacted_by)
        => /\ events[p][i].reaction = NULL /\ events[p][i].reacted_by = NULL
           /\ \E h \in Running :
                 /\ h.pc = "react" /\ Left(h)
                 /\ Recognized(h)
                 /\ h.pending.channel_name = p
                 /\ h.pending.event_id = events[p][i].id
                 /\ events'[p][i].reaction = h.decision
                 /\ h.decision \in {"approved", "rejected"}

\* update_reaction is never called for a row that has a disposition.
C28_WrittenOnceStep ==
    \A h \in Running :
        (h.pc = "react" /\ Left(h))
        => \A i \in 1..Len(events[h.pending.channel_name]) :
              events[h.pending.channel_name][i].id = h.pending.event_id
              => events[h.pending.channel_name][i].reaction = NULL

\* The rows of verdicts and nudges that register no pending action have no
\* disposition and no decider.
C28_UnlinkedStayNull ==
    \A p \in Projects : \A i \in 1..Len(events[p]) :
        events[p][i].event_type \in {"ROUTE", "PR_NUDGE"}
        => events[p][i].reaction = NULL /\ events[p][i].reacted_by = NULL

\* C28: no operation deletes an Event or alters its id, kind, author,
\* category, content or permalink; the disposition of an Event is written at
\* most once, by the human decision on the pending action linked to it; the
\* Events of ROUTE verdicts and of pull request nudges keep a null
\* disposition.
C28_EventLifecycle ==
    /\ []C28_UnlinkedStayNull
    /\ [][C28_RowsKeptStep /\ C28_DispositionStep /\ C28_WrittenOnceStep]_vars

\* The ledger holds the Event of a pull request nudge without disposition
\* and an Event whose disposition a decision has written.
C28_Witness ==
    \E i, j \in 1..Len(events["alpha"]) :
        /\ events["alpha"][i].event_type = "PR_NUDGE"
        /\ events["alpha"][i].reaction = NULL
        /\ events["alpha"][j].reaction \in {"approved", "rejected"}

\* The thread a handler's message is in: the thread it replies in, its own
\* when it is no reply.
ThreadRoot(h) == IF h.thread_ts # 0 THEN h.thread_ts ELSE h.ts

\* An unresolved pending action of the project was proposed for the message
\* that starts the thread.
PendingOfThread(project, root) ==
    \/ \E k \in DOMAIN pending_updates :
          /\ pending_updates[k].channel_name = project
          /\ pending_updates[k].thread_ts = root
    \/ \E k \in DOMAIN pending_nudges :
          /\ pending_nudges[k].channel_name = project
          /\ pending_nudges[k].thread_ts = root

\* No handler registers a pending action for a message of a thread that has
\* an unresolved pending action.
C29_PutStep ==
    \A h \in Running :
        (h.pc = "put" /\ Left(h)) => ~PendingOfThread(ProjectOf(h), ThreadRoot(h))

\* C29: the registry holds at most one pending action per message thread:
\* no sequence of messages leaves two unresolved pending actions whose
\* proposals belong to the same thread.
C29_OnePendingPerThread == [][C29_PutStep]_vars

\* The exception of a failed classification of the handler's message is in
\* Bolt's log after the step.
OracleFailed(h) ==
    CopiesIn([exc |-> "OracleError", kind |-> h.kind, pc |-> h.pc, channel |-> h.channel,
              ts |-> h.ts], errlog')
    > CopiesIn([exc |-> "OracleError", kind |-> h.kind, pc |-> h.pc, channel |-> h.channel,
                ts |-> h.ts], errlog)

\* The step in which the classification of a message fails ends the handler
\* and changes no ledger, message log, registry, Document, cached Document or
\* post.
C30_FailStep ==
    \A h \in Running :
        (h.pc = "classify" /\ Left(h) /\ OracleFailed(h))
        => /\ Ends(h)
           /\ UNCHANGED << events, msgfile, pending_updates, pending_nudges, file, posts,
                           channels, clock >>
           /\ \A p \in Projects : agents[p].exists => agents'[p] = agents[p]

\* Nothing carries the permalink or the id of a message whose classification
\* failed: no Event, no line of the message log, no pending action, no post.
C30_NothingResults ==
    \A e \in BagToSet(errlog) :
        e.exc = "OracleError"
        => LET p == ChannelName(e.channel)
               link == BuildPermalink(e.channel, e.ts)
           IN /\ \A i \in 1..Len(events[p]) : events[p][i].permalink # link
              /\ \A i \in 1..Len(msgfile[p].lines) : msgfile[p].lines[i].permalink # link
              /\ \A k \in DOMAIN pending_updates :
                    ~(pending_updates[k].channel_name = p /\ pending_updates[k].thread_ts = e.ts)
              /\ \A k \in DOMAIN pending_nudges :
                    ~(pending_nudges[k].channel_name = p /\ pending_nudges[k].thread_ts = e.ts)
              /\ \A post \in BagToSet(posts) :
                    ~(post.channel = e.channel /\ post.thread_ts = e.ts)

\* C30: a failure of the classification leaves the handler as an exception
\* and changes nothing: no Event, no line of the message log, no pending
\* action and no change of the Document result from the message.
C30_OracleFailure == []C30_NothingResults /\ [][C30_FailStep]_vars

\* The classification of a message has failed while a Document and Events of
\* the project exist.
C30_Witness ==
    \E e \in BagToSet(errlog) :
        /\ e.exc = "OracleError"
        /\ Len(events[ChannelName(e.channel)]) > 0
        /\ file[ChannelName(e.channel)].exists

\* The lines of the given kinds of a text, in order.
LinesOfKind(lines, kinds) == SelectSeq(lines, LAMBDA l : l.kind \in kinds)

\* The step in which initialize returns leaves a Document with the
\* placeholder Objective, the members' lines in input order (the marker for
\* an empty list), the placeholder of the Decision Log and no entry, and a
\* message log without entries; the cache holds both as they are on disk.
C31_ReturnStep ==
    \A h \in Running :
        (h.pc = "init_reload" /\ Left(h))
        => LET p == ProjectOf(h)
               lines == file'[p].lines
           IN /\ file'[p].exists /\ msgfile'[p].exists
              /\ LinesOfKind(lines, {"objective_placeholder", "objective"})
                    = << Plain("objective_placeholder") >>
              /\ LinesOfKind(lines, {"member", "no_members"})
                    = IF h.members = << >>
                      THEN << Plain("no_members") >>
                      ELSE [i \in 1..Len(h.members) |->
                              MemberLine(h.members[i].real_name, h.members[i].id,
                                         h.members[i].title)]
              /\ LinesOfKind(lines, {"entry", "log_placeholder"}) = << Placeholder >>
              /\ LinesOfKind(msgfile'[p].lines, {"message"}) = << >>
              /\ agents'[p].ground_truth = LoadFile(file'[p])
              /\ agents'[p].messages = LoadFile(msgfile'[p])

\* initialize on what initialize left for the same members changes neither
\* file.
C31_AgainStep ==
    \A h \in Running :
        /\ (/\ h.pc = "init_write" /\ Left(h)
            /\ file[ProjectOf(h)] = FileOf(InitialGroundTruth(h.members)))
           => file' = file
        /\ (/\ h.pc = "init_messages" /\ Left(h)
            /\ msgfile[ProjectOf(h)] = FileOf(InitialMessages))
           => msgfile' = msgfile

\* C31: initialize overwrites.  Whatever the files held before, after it
\* returns the Document has the placeholder Objective, one Directory line per
\* member in input order or the no-members marker, and the Decision Log
\* placeholder, and the message log has no entry; a second call with the
\* same members changes nothing.
C31_InitializeOverwrites == [][C31_ReturnStep /\ C31_AgainStep]_vars

\* initialize is about to return for a list of two members, on a project
\* whose Document held an approved entry and whose message log held its line.
C31_Witness ==
    \E h \in Running :
        /\ h.pc = "mention_say" /\ h.decision = "initialized"
        /\ Len(h.members) = 2
        /\ \E i \in 1..Len(events[ProjectOf(h)]) : events[ProjectOf(h)][i].reaction = "approved"

\* What get_events returns for every limit is the same before and after the
\* step.
SameListing(p) == \A limit \in 0..(MaxLimit + 1) : GetEvents(events'[p], limit) = GetEvents(events[p], limit)

\* log_event and update_reaction of a handler leave the listing of every
\* other project as it was; no step changes the ledgers of two projects.
C32_OtherLedgersStep ==
    /\ \A h \in Running :
          (h.pc = "log_event" /\ Left(h))
          => \A q \in Projects \ {ProjectOf(h)} : SameListing(q)
    /\ \A h \in Running :
          (h.pc = "react" /\ Left(h))
          => \A q \in Projects \ {h.pending.channel_name} : SameListing(q)
    /\ \A p, q \in Projects : (events'[p] # events[p] /\ events'[q] # events[q]) => p = q

\* Every ledger numbers its own rows: 1, 2, ... whatever the other holds.
C32_OwnIds ==
    \A p \in Projects : \A i \in 1..Len(events[p]) : events[p][i].id = i

\* C32: the Event Ledgers of different projects are separate: log_event and
\* update_reaction on one project never change what get_events returns for
\* another, and each project assigns its identifiers on its own.
C32_SeparateLedgers == []C32_OwnIds /\ [][C32_OtherLedgersStep]_vars

\* Both ledgers hold a row with id 1, and a decision has been recorded in
\* only one of them.
C32_Witness ==
    /\ Len(events["alpha"]) >= 1 /\ Len(events["beta"]) >= 1
    /\ events["alpha"][1].event_type = "UPDATE" /\ events["beta"][1].event_type = "UPDATE"
    /\ events["alpha"][1].reaction = NULL
    /\ events["beta"][1].reaction = "rejected"

\* The rows a get_events call returns: at most limit, as many as the ledger
\* allows, in strictly decreasing order of id, all of them rows of the
\* project's ledger and every row left out older than every row returned.
C33_ListStep ==
    (listed' # listed)
    => LET rows == listed'.rows
           all == events[listed'.project]
       IN /\ Len(rows) <= listed'.limit
          /\ Len(rows) = IF Len(all) < listed'.limit THEN Len(all) ELSE listed'.limit
          /\ \A i, j \in 1..Len(rows) : i < j => rows[i].id > rows[j].id
          /\ \A i \in 1..Len(rows) : \E k \in 1..Len(all) : all[k] = rows[i]
          /\ \A k \in 1..Len(all) :
                (\A i \in 1..Len(rows) : rows[i] # all[k])
                => \A i \in 1..Len(rows) : all[k].id < rows[i].id

\* C33: get_events returns the events of the project newest first, in
\* strictly decreasing order of id, at most limit of them, and those are the
\* limit most recent ones.
C33_NewestFirst == [][C33_ListStep]_vars

\* A listing with limit 2 of a ledger of three rows.
C33_Witness ==
    /\ listed.limit = 2
    /\ Len(listed.rows) = 2
    /\ listed.project # ""
    /\ Len(events[listed.project]) = 3
    /\ listed.rows[1].id = 3

\* The step in which the validation is skipped after a failed lookup ends
\* the handler without an exception and without a post, and leaves the key
\* removed, the entry in the Document, the line in the message log and the
\* approved disposition of the Event.
C34_SkippedStep ==
    ValidateSkipped
    => /\ UNCHANGED << file, msgfile, events, agents, pending_updates, pending_nudges, posts,
                       errlog >>
       /\ \A h \in Running :
             (h.pc = "validate" /\ Left(h))
             => LET p == h.pending.channel_name
                IN /\ Ends(h)
                   /\ h.ts \notin DOMAIN pending_updates'
                   /\ HasEntryOf(file'[p].lines, h)
                   /\ \E i \in 1..Len(msgfile'[p].lines) :
                         msgfile'[p].lines[i] = MessageLine(h.pending.user, h.pending.permalink,
                                                            h.pending.category,
                                                            h.pending.update_text)
                   /\ \E i \in 1..Len(events'[p]) :
                         /\ events'[p][i].id = h.pending.event_id
                         /\ events'[p][i].reaction = "approved"
                         /\ events'[p][i].reacted_by = h.user

\* C34: a failure of the member lookup of the directory validation after an
\* approved update does not fail the approval: the Document change, the line
\* of the message log, the approved disposition and the removal of the key
\* remain, no warning is posted and the handler returns without error.
C34_LookupFailureKept == [][C34_SkippedStep]_vars

\* An approval has ended without a warning although the validation would
\* have found a missing id: its lookup failed.
C34_Witness ==
    /\ handlers = EmptyBag
    /\ errlog = EmptyBag
    /\ \E i \in 1..Len(events["alpha"]) : events["alpha"][i].reaction = "approved"
    /\ agents["alpha"].exists
    /\ ValidateDirectory(agents["alpha"].ground_truth, MemberIds("C1")) # << >>
    /\ \A q \in BagToSet(posts) : q.text # "directory_warning"

\* The step of an iteration that raises: the error is logged, the thread is
\* back at its sleep, and what the handlers read and write (the files, the
\* agents, the ledgers, the registries, the handlers themselves) is as before.
C35_FailStep ==
    PollFails(Monitored)
    => /\ poller' = "sleeping"
       /\ \E where \in {"fetch_open_prs", "check_pr", "chat_postMessage", "log_event"} :
             errlog' = errlog (+) SetToBag({PollError(where)})
       /\ UNCHANGED << file, msgfile, agents, events, pending_updates, pending_nudges,
                       handlers >>

\* No step of the monitor's thread touches a handler, a file or a registry.
C35_PollerStep ==
    (poller' # poller /\ ~Restart)
    => UNCHANGED << file, msgfile, pending_updates, pending_nudges, handlers >>

NudgeRows(rows, pr) ==
    {i \in 1..Len(rows) : rows[i].event_type = "PR_NUDGE" /\ rows[i].permalink = PrUrl(pr)}
NudgePosts(b) ==
    BagCardinality([q \in {r \in BagToSet(b) : r.text = "pr_nudge"} |-> b[q]])

\* While the process runs the seen set only grows, and a pull request in it
\* is not checked and gets no PR_NUDGE Event.
C36_SeenStep ==
    ~Restart
    => \A pr \in OpenPullRequests :
          pr \in seen_prs
          => /\ pr \in seen_prs'
             /\ checked'[pr] = checked[pr]
             /\ NudgeRows(events'[GithubProject], pr) = NudgeRows(events[GithubProject], pr)

\* A nudge is posted only in a step that checks a pull request that was not
\* in the seen set, and puts it there.
C36_NudgeStep ==
    NudgePosts(posts') > NudgePosts(posts)
    => /\ NudgePosts(posts') = NudgePosts(posts) + 1
       /\ \E pr \in OpenPullRequests \ seen_prs :
             /\ pr \in seen_prs'
             /\ checked'[pr] = 1
             /\ \A other \in OpenPullRequests \ {pr} :
                   NudgeRows(events'[GithubProject], other)
                     = NudgeRows(events[GithubProject], other)

\* C36: each pull request is checked at most once per process: a number in
\* the seen set, seeded at startup or met in an earlier poll, is never passed
\* to check_pr again and gets no second nudge or PR_NUDGE Event, also when
\* its check raised or produced no nudge.
C36_CheckedOnce ==
    /\ [](\A pr \in OpenPullRequests :
            /\ checked[pr] <= 1
            /\ checked[pr] = 1 => pr \in seen_prs)
    /\ [][C36_SeenStep /\ C36_NudgeStep]_vars

\* The loop polls again after pull request 1 was seeded at startup and the
\* check of pull request 2 has raised; neither has an Event.
C36_Witness ==
    /\ poller = "polling"
    /\ seen_prs = {1, 2}
    /\ checked[1] = 0
    /\ checked[2] = 1
    /\ events[GithubProject] = << >>
    /\ PollError("check_pr") \in BagToSet(errlog)

\* The lines of a message log that are entries.
MessageEntries(lines) == SelectSeq(lines, LAMBDA l : l.kind = "message")

\* A step of log_message: the file of one project has one more line, an
\* entry, after the lines it had; the cache of that project's agent is what
\* the file now holds.
C37_AppendStep ==
    (ClassifyLogMessage \/ ResolveLogMessage)
    => \E p \in Projects :
          /\ msgfile'[p].exists
          /\ Len(msgfile'[p].lines) = Len(msgfile[p].lines) + 1
          /\ SubSeq(msgfile'[p].lines, 1, Len(msgfile[p].lines)) = msgfile[p].lines
          /\ msgfile'[p].lines[Len(msgfile'[p].lines)].kind = "message"
          /\ agents'[p].messages = LoadFile(msgfile'[p])
          /\ MessageEntries(agents'[p].messages) = MessageEntries(msgfile'[p].lines)
          /\ \A q \in Projects \ {p} : msgfile'[q] = msgfile[q] /\ agents'[q] = agents[q]

\* C37: log_message appends exactly one entry at the end of the project's
\* message log and leaves the earlier entries as they were and in their
\* order; the entry is in the file when log_message returns and the cached
\* message log is then the persisted one.
C37_LogMessageAppends == [][C37_AppendStep]_vars

\* Two entries were appended to the message log of project alpha.
C37_Witness ==
    /\ Len(MessageEntries(msgfile["alpha"].lines)) = 2
    /\ agents["alpha"].messages = LoadFile(msgfile["alpha"])
    /\ msgfile["alpha"].lines[1].kind = "header1"

\* The entry's Event: a row of the ledger of the entry's project with the
\* entry's id, of one of the given kinds and without a disposition.
LinkedEvent(entry, kinds) ==
    \E i \in 1..Len(events[entry.channel_name]) :
        LET row == events[entry.channel_name][i]
        IN /\ row.id = entry.event_id
           /\ row.event_type \in kinds
           /\ row.reaction = NULL
           /\ row.reacted_by = NULL

\* C38: every entry of either pending pool carries the id of an Event that
\* exists in the ledger of the entry's project, whose kind matches the pool
\* (UPDATE for pending updates, MISALIGN or QUESTION for pending nudges) and
\* whose disposition is still null.
C38_RegistryLedgerLink ==
    /\ \A k \in DOMAIN pending_updates : LinkedEvent(pending_updates[k], {"UPDATE"})
    /\ \A k \in DOMAIN pending_nudges : LinkedEvent(pending_nudges[k], {"MISALIGN", "QUESTION"})

\* A nudge is pending after a proposal was decided and left its pool.
C38_Witness ==
    /\ pending_nudges # << >>
    /\ pending_updates = << >>
    /\ \E p \in Projects : \E i \in 1..Len(events[p]) :
          events[p][i].event_type = "UPDATE" /\ events[p][i].reaction # NULL

\* A handler that approves a pending update, after its decision.
Approving(h) == h.pool = "update" /\ h.decision = "approved"

\* The Event of the entry a handler holds has the disposition approved.
ApprovedIn(ev, h) ==
    \E i \in 1..Len(ev[h.pending.channel_name]) :
        /\ ev[h.pending.channel_name][i].id = h.pending.event_id
        /\ ev[h.pending.channel_name][i].reaction = "approved"

\* The line log_message writes for the entry a handler holds.
LoggedIn(mf, h) ==
    \E i \in 1..Len(mf[h.pending.channel_name].lines) :
        mf[h.pending.channel_name].lines[i]
          = MessageLine(h.pending.user, h.pending.permalink, h.pending.category,
                        h.pending.update_text)

\* Where an approving handler comes from: apply_update is entered from the
\* removal of the key only, the message log from the end of apply_update
\* only, the disposition from the message log only.
C39_ArriveStep ==
    \A h2 \in BagToSet(handlers') :
        (Arrived(h2) /\ Approving(h2))
        => /\ h2.pc = "apply_read"
              => /\ TextPop \/ ReactionDel
                 /\ KeyOf(h2) \notin DOMAIN pending_updates'
           /\ h2.pc = "apply_write" => ApplyRead
           /\ h2.pc = "apply_reload" => ApplyWrite /\ HasEntryOf(file'[h2.pending.channel_name].lines, h2)
           /\ h2.pc = "resolve_log" => ~ApplyRead /\ ~ApplyWrite /\ ~TextPop /\ ~ReactionDel
                                       /\ UNCHANGED << file, msgfile, events >>
           /\ h2.pc = "react"
              => /\ ResolveLogMessage
                 /\ LoggedIn(msgfile', h2)
                 /\ ~ApprovedIn(events', h2)
           /\ h2.pc = "confirm" => React /\ ApprovedIn(events', h2)

\* What an approving handler has done by the time it leaves a place: the key
\* is gone from the removal on, and the disposition is written by the step
\* that leaves "react" and by no other.
C39_LeaveStep ==
    \A h \in Running :
        (Left(h) /\ Approving(h) /\ h.pc \in {"apply_read", "apply_write", "apply_reload",
                                                "resolve_log", "react"})
        => /\ h.pc # "react" => UNCHANGED events /\ ~ApprovedIn(events, h)
           /\ h.pc # "resolve_log" => UNCHANGED msgfile
           /\ h.pc # "apply_write" => UNCHANGED file
           /\ h.pc = "react" => /\ ~ApprovedIn(events, h)
                                /\ GoesTo(h, "confirm") => ApprovedIn(events', h)

\* An UPDATE Event becomes approved only in the step of a handler that
\* leaves "react".
C39_ApprovedStep ==
    \A p \in Projects : \A i \in 1..Len(events[p]) :
        (/\ events[p][i].event_type = "UPDATE"
         /\ Len(events'[p]) >= i
         /\ events[p][i].reaction # "approved"
         /\ events'[p][i].reaction = "approved")
        => \E h \in Running :
              /\ h.pc = "react" /\ Left(h) /\ Approving(h)
              /\ Holds(h, p, events[p][i].id)
              /\ ~Registered(p, events[p][i].id)

\* C39: in the approval path the key is removed first, then the Document is
\* mutated, then the MessageLogEntry is written, and only then is the Event
\* marked approved; an UPDATE Event that is approved has had its text applied
\* to the Document and its MessageLogEntry written before.
C39_ApprovalOrder == [][C39_ArriveStep /\ C39_LeaveStep /\ C39_ApprovedStep]_vars

\* An approval has just written the disposition: the key is gone, the entry
\* is in the Document and the line in the message log.
C39_Witness ==
    \E h \in Running :
        /\ h.pc = "confirm"
        /\ Approving(h)
        /\ ApprovedIn(events, h)
        /\ LoggedIn(msgfile, h)
        /\ HasEntryOf(file[h.pending.channel_name].lines, h)
        /\ KeyOf(h) \notin DOMAIN pending_updates

\* The step appends exactly the given line to the message log of project p
\* and leaves the other logs alone.
AppendsOne(p, line) ==
    /\ msgfile'[p].lines = msgfile[p].lines \o << line >>
    /\ \A q \in Projects \ {p} : msgfile'[q] = msgfile[q]

\* A message handler whose verdict is of one of the given kinds.
Verdict(h, kinds) == h.kind = "message" /\ h.result # << >> /\ h.result[1] \in kinds

\* The steps of the handlers and the message log.  A handler of a ROUTE,
\* MISALIGN or QUESTION verdict goes from its post to log_message and from
\* there, with one line appended, to log_event; a handler of an UPDATE verdict
\* goes from its post to log_event and writes no line.  A decision writes a
\* line only when it approves a pending update, at its log_message.  Every
\* other step of a handler leaves the message log as it is, but for the
\* step of initialize that starts the log anew.
C40_Step ==
    \A h \in Running :
        Left(h)
        => /\ (h.pc = "say" /\ Verdict(h, {"ROUTE", "MISALIGN", "QUESTION"}))
              => \A h2 \in BagToSet(handlers') :
                    (Arrived(h2) /\ h2.ts = h.ts /\ h2.kind = h.kind) => h2.pc = "log_message"
           /\ (h.pc = "say" /\ Verdict(h, {"UPDATE"}))
              => \A h2 \in BagToSet(handlers') :
                    (Arrived(h2) /\ h2.ts = h.ts /\ h2.kind = h.kind) => h2.pc = "log_event"
           /\ GoesTo(h, "log_message")
              => h.pc = "say" /\ Verdict(h, {"ROUTE", "MISALIGN", "QUESTION"})
           /\ (GoesTo(h, "log_event") /\ ~Verdict(h, {"UPDATE"}))
              => h.pc = "log_message"
           /\ (h.pc = "log_message" /\ GoesTo(h, "log_event"))
              => AppendsOne(ProjectOf(h),
                            MessageLine(h.user, BuildPermalink(h.channel, h.ts), h.category,
                                        ContentOf(h.result)))
           /\ (h.pc = "resolve_log" /\ GoesTo(h, "react"))
              => /\ Approving(h)
                 /\ AppendsOne(h.pending.channel_name,
                               MessageLine(h.pending.user, h.pending.permalink,
                                           h.pending.category, h.pending.update_text))
           /\ GoesTo(h, "resolve_log") => Approving(h)
           /\ msgfile' # msgfile
              => \/ h.pc = "log_message" /\ Verdict(h, {"ROUTE", "MISALIGN", "QUESTION"})
                 \/ h.pc = "resolve_log" /\ Approving(h)
                 \/ h.pc = "init_messages" /\ h.kind = "mention"

\* C40: an UPDATE proposal adds a MessageLogEntry only when it is approved
\* (a rejected or unresolved proposal adds none); ROUTE, MISALIGN and
\* QUESTION add exactly one at classification time.
C40_MessageLogEntries ==
    /\ [][C40_Step]_vars
    /\ [][handlers' = handlers => msgfile' = msgfile]_vars

\* A proposal was rejected and a request for help was routed: the message
\* log holds the one line of the request.
C40_Witness ==
    /\ handlers = EmptyBag
    /\ \E i \in 1..Len(events["alpha"]) :
          events["alpha"][i].event_type = "UPDATE" /\ events["alpha"][i].reaction = "rejected"
    /\ \E i \in 1..Len(events["alpha"]) : events["alpha"][i].event_type = "ROUTE"
    /\ Len(events["alpha"]) = 2
    /\ Len(MessageEntries(msgfile["alpha"].lines)) = 1
    /\ MessageEntries(msgfile["alpha"].lines)[1].category # "decision"

====
